---- MODULE Spec2Model ----
(***************************************************************************)
(* Dynamica editor: the "Analizza" action of the sidebar.                  *)
(*                                                                         *)
(* The click handler installed by loadAnalysisControls reads the canvas    *)
(* component list, normalises the sources, validates the circuit topology  *)
(* (greedy clustering of terminals into nodes, dangling check, breadth-    *)
(* first connectivity), validates the component parameters and, when both  *)
(* succeed, stores the snapshot and opens the analysis page.               *)
(*                                                                         *)
(* Conventions.                                                            *)
(*  - A JavaScript string is a sequence of one-character strings.          *)
(*  - An optional field is a sequence of length 0 (absent / undefined) or  *)
(*    1 (present): <<>> or <<v>>.                                          *)
(*  - Array indices, node ids and component indices are 0-based as in the  *)
(*    source; element i of an array a is a[i + 1].                         *)
(*  - Centroid coordinates are exact rationals [n, d] in lowest terms;     *)
(*    the source computes them in IEEE doubles, whose rounding is not      *)
(*    modelled.                                                            *)
(***************************************************************************)
EXTENDS Integers, Sequences, FiniteSets, TLC

VARIABLES
  components,    \* componentsRef.current: the canvas component list
  popup,         \* textContent of #analysis-error-popup (an error record)
  popupVisible,  \* the popup carries class "is-visible"
  timerSet,      \* analysisErrorTimer !== null
  storage,       \* localStorage[ANALYSIS_DRAFT_KEY]: <<>> or <<snapshot>>
  pagesOpened,   \* number of window.open("/pages/analysis.html") calls
  lastPass,      \* locals of the last run of the click handler
  undoStack,     \* CircuitCanvas state undoStack
  redoStack,     \* CircuitCanvas state redoStack
  eraseMode,     \* CircuitCanvas state eraseMode
  watched,       \* history: <<>> or <<one earlier run of the click handler>>
  wireMode,      \* CircuitCanvas state wireMode
  cloneMode,     \* CircuitCanvas state cloneMode
  draftWire,     \* CircuitCanvas state draftWire: <<>> (null) or <<[pinA, pinB]>>
  previewComponent, \* the preview store and its mirror in CircuitCanvas: <<>> or <<comp>>
  selectedIds,   \* CircuitCanvas state selectedIds
  currentTool,   \* window.currentTool: <<>> (never set) or <<tool>>
  keyboardLock,  \* window.__inspectorKeyboardLock
  now,           \* the value Date.now() returns
  uuids,         \* number of identifiers crypto.randomUUID() has handed out
  inspector,     \* the inspector form: component shown, check boxes, text fields
  lastPatch,     \* history: <<>> or <<the last patch given to updateComponent>>
  journal        \* history: the last two editor operations

(* The state of the canvas tools, of the inspector and of the clock *)
editorVars == <<wireMode, cloneMode, draftWire, previewComponent, selectedIds,
                currentTool, keyboardLock, now, uuids, inspector, lastPatch, journal>>

vars == <<components, popup, popupVisible, timerSet, storage, pagesOpened, lastPass,
          undoStack, redoStack, eraseMode, watched,
          wireMode, cloneMode, draftWire, previewComponent, selectedIds,
          currentTool, keyboardLock, now, uuids, inspector, lastPatch, journal>>

----------------------------------------------------------------------------
(* Bounds of the model *)

MaxComps == 4
MaxFillers == 2
MaxTime == 1
MaxPages == 1

(* Program constants *)

CLUSTER_TOLERANCE == 8
PREVIEW_CAP == 4

----------------------------------------------------------------------------
(* Strings *)

IsWhitespace(ch) == ch = " "

RECURSIVE TrimStart(_)
TrimStart(s) ==
  IF s = <<>> THEN <<>>
  ELSE IF IsWhitespace(Head(s)) THEN TrimStart(Tail(s))
  ELSE s

RECURSIVE TrimEnd(_)
TrimEnd(s) ==
  IF s = <<>> THEN <<>>
  ELSE IF IsWhitespace(s[Len(s)]) THEN TrimEnd(SubSeq(s, 1, Len(s) - 1))
  ELSE s

Trim(s) == TrimEnd(TrimStart(s))

ToUpperCase(type) ==
  CASE type = "wire" -> <<"W", "I", "R", "E">>
    [] type = "resistor" -> <<"R", "E", "S", "I", "S", "T", "O", "R">>
    [] type = "capacitor" -> <<"C", "A", "P", "A", "C", "I", "T", "O", "R">>
    [] type = "inductor" -> <<"I", "N", "D", "U", "C", "T", "O", "R">>
    [] type = "voltage_source" ->
         <<"V", "O", "L", "T", "A", "G", "E", "_", "S", "O", "U", "R", "C", "E">>
    [] type = "current_source" ->
         <<"C", "U", "R", "R", "E", "N", "T", "_", "S", "O", "U", "R", "C", "E">>

Digit(k) == CASE k = 0 -> "0" [] k = 1 -> "1" [] k = 2 -> "2" [] k = 3 -> "3"
              [] k = 4 -> "4" [] k = 5 -> "5" [] k = 6 -> "6" [] k = 7 -> "7"
              [] k = 8 -> "8" [] k = 9 -> "9"

RECURSIVE NumberToString(_)
NumberToString(k) ==
  IF k < 10 THEN <<Digit(k)>>
  ELSE Append(NumberToString(k \div 10), Digit(k % 10))

(* Array.prototype.slice(0, n) *)
Slice(s, n) == SubSeq(s, 1, IF Len(s) < n THEN Len(s) ELSE n)

----------------------------------------------------------------------------
(* Optional fields *)

Undefined == <<>>
Some(v) == <<v>>
IsPresent(f) == Len(f) = 1
Get(f) == f[1]

(* Mutant: the string is not trimmed before it is compared with "" *)
IsNonBlankString_NoTrim(f) == IsPresent(f) /\ Get(f) # <<>>

(* typeof f === "string" && f.trim() !== "" *)
IsNonBlankString(f) == IsPresent(f) /\ Trim(Get(f)) # <<>>

(* !!(f && f.trim() !== ""): an absent or empty string is falsy *)
IsTruthyNonBlank(f) == IsPresent(f) /\ Get(f) # <<>> /\ Trim(Get(f)) # <<>>

----------------------------------------------------------------------------
(* canonicalLabel *)

(* Mutant: the fallback name carries the 0-based index *)
canonicalLabel_ZeroBased(comp, index) ==
  LET label == IF IsPresent(comp.label) THEN Trim(Get(comp.label)) ELSE <<>>
  IN IF label # <<>> THEN label
     ELSE ToUpperCase(comp.type) \o <<"_">> \o NumberToString(index)

canonicalLabel(comp, index) ==
  LET label == IF IsPresent(comp.label) THEN Trim(Get(comp.label)) ELSE <<>>
  IN IF label # <<>> THEN label
     ELSE ToUpperCase(comp.type) \o <<"_">> \o NumberToString(index + 1)

----------------------------------------------------------------------------
(* Error results: { ok: false, error } carries the failure class, the      *)
(* previewed names and whether the "..." suffix is appended.               *)

NoError == [kind |-> "none", names |-> <<>>, more |-> FALSE]
Ok == [ok |-> TRUE, error |-> NoError]
Fail(kind, names, more) ==
  [ok |-> FALSE, error |-> [kind |-> kind, names |-> names, more |-> more]]

(* Array.prototype.filter(entry => !!entry) over a mapped array whose      *)
(* misses are <<>> (null) and whose hits are <<entry>>.                    *)
RECURSIVE FilterHits(_)
FilterHits(s) ==
  IF s = <<>> THEN <<>>
  ELSE (IF Head(s) = <<>> THEN <<>> ELSE <<Head(s)[1]>>) \o FilterHits(Tail(s))

----------------------------------------------------------------------------
(* Parameter check *)

(* Mutant: the inductor is left out of the passive types *)
IsPassive_NoInductor(type) == type \in {"resistor", "capacitor"}

IsPassive(type) == type \in {"resistor", "capacitor", "inductor"}

(* Mutant: a source flagged unknown satisfies the check *)
getMissingParamReason_UnknownSatisfies(comp) ==
  IF comp.type = "wire" THEN <<>>
  ELSE IF IsPassive(comp.type) THEN
    LET hasValue == IsNonBlankString(comp.value)
    IN IF hasValue THEN <<>> ELSE << <<"v", "a", "l", "o", "r", "e">> >>
  ELSE IF comp.type = "voltage_source" THEN
    LET hasVoltage == IsNonBlankString(comp.voltage)
    IN IF comp.voltageUnknown = Some(TRUE) \/ hasVoltage
       THEN <<>> ELSE << <<"t", "e", "n", "s", "i", "o", "n", "e">> >>
  ELSE IF comp.type = "current_source" THEN
    LET hasCurrent == IsNonBlankString(comp.current)
    IN IF comp.currentUnknown = Some(TRUE) \/ hasCurrent
       THEN <<>> ELSE << <<"c", "o", "r", "r", "e", "n", "t", "e">> >>
  ELSE <<>>

(* null is <<>>, a reason is <<reason>> *)
getMissingParamReason(comp) ==
  IF comp.type = "wire" THEN <<>>
  ELSE IF IsPassive(comp.type) THEN
    LET hasValue == IsNonBlankString(comp.value)
    IN IF hasValue THEN <<>> ELSE << <<"v", "a", "l", "o", "r", "e">> >>
  ELSE IF comp.type = "voltage_source" THEN
    LET hasVoltage == IsNonBlankString(comp.voltage)
    IN IF comp.voltageUnknown = Some(TRUE) \/ ~hasVoltage
       THEN << <<"t", "e", "n", "s", "i", "o", "n", "e">> >> ELSE <<>>
  ELSE IF comp.type = "current_source" THEN
    LET hasCurrent == IsNonBlankString(comp.current)
    IN IF comp.currentUnknown = Some(TRUE) \/ ~hasCurrent
       THEN << <<"c", "o", "r", "r", "e", "n", "t", "e">> >> ELSE <<>>
  ELSE <<>>

validateComponentParams(comps) ==
  LET mapped == [i \in 1..Len(comps) |->
                   LET reason == getMissingParamReason(comps[i])
                   IN IF reason = <<>> THEN <<>>
                      ELSE <<canonicalLabel(comps[i], i - 1) \o <<" ", "(">>
                               \o reason[1] \o <<")">> >>]
      missing == FilterHits(mapped)
  IN IF Len(missing) = 0 THEN Ok
     ELSE Fail("params", Slice(missing, PREVIEW_CAP), Len(missing) > PREVIEW_CAP)

----------------------------------------------------------------------------
(* normalizeComponentsForAnalysis *)

(* Mutant: flags that are both present and mutually exclusive are kept *)
normalizeComponent_KeepsExclusive(comp) ==
  LET exclusive == /\ comp.voltageUnknown # Undefined
                   /\ comp.currentUnknown # Undefined
                   /\ comp.voltageUnknown # comp.currentUnknown
  IN IF comp.type = "voltage_source" THEN
       LET hasVoltage == IsTruthyNonBlank(comp.voltage)
       IN IF exclusive THEN [comp EXCEPT !.value = Undefined]
          ELSE [comp EXCEPT !.value = Undefined,
                            !.voltageUnknown = Some(~hasVoltage),
                            !.currentUnknown = Some(hasVoltage)]
     ELSE IF comp.type = "current_source" THEN
       LET hasCurrent == IsTruthyNonBlank(comp.current)
       IN IF exclusive THEN [comp EXCEPT !.value = Undefined]
          ELSE [comp EXCEPT !.value = Undefined,
                            !.currentUnknown = Some(~hasCurrent),
                            !.voltageUnknown = Some(hasCurrent)]
     ELSE comp

(* Mutant: only the flag of the source's own quantity is derived *)
normalizeComponent_OwnFlagOnly(comp) ==
  IF comp.type = "voltage_source" THEN
    LET hasVoltage == IsTruthyNonBlank(comp.voltage)
    IN [comp EXCEPT !.value = Undefined, !.voltageUnknown = Some(~hasVoltage)]
  ELSE IF comp.type = "current_source" THEN
    LET hasCurrent == IsTruthyNonBlank(comp.current)
    IN [comp EXCEPT !.value = Undefined, !.currentUnknown = Some(~hasCurrent)]
  ELSE comp

normalizeComponent(comp) ==
  IF comp.type = "voltage_source" THEN
    LET hasVoltage == IsTruthyNonBlank(comp.voltage)
    IN [comp EXCEPT !.value = Undefined,
                    !.voltageUnknown = Some(~hasVoltage),
                    !.currentUnknown = Some(hasVoltage)]
  ELSE IF comp.type = "current_source" THEN
    LET hasCurrent == IsTruthyNonBlank(comp.current)
    IN [comp EXCEPT !.value = Undefined,
                    !.currentUnknown = Some(~hasCurrent),
                    !.voltageUnknown = Some(hasCurrent)]
  ELSE comp

normalizeComponentsForAnalysis(comps) ==
  [i \in 1..Len(comps) |-> normalizeComponent(comps[i])]

----------------------------------------------------------------------------
(* Exact rational arithmetic for the running centroids *)

RECURSIVE Gcd(_, _)
Gcd(a, b) == IF b = 0 THEN a ELSE Gcd(b, a % b)

Abs(a) == IF a < 0 THEN -a ELSE a

Rat(n, d) == LET g == Gcd(Abs(n), d) IN [n |-> n \div g, d |-> d \div g]
RatInt(k) == [n |-> k, d |-> 1]
RatMulInt(r, k) == Rat(r.n * k, r.d)
RatAddInt(r, k) == Rat(r.n + k * r.d, r.d)
RatDivInt(r, k) == Rat(r.n, r.d * k)

----------------------------------------------------------------------------
(* Maps and Sets of validateCircuitIntegrity.  A Set<number> is the        *)
(* sequence of its elements in insertion order; a Map<number, V> is the    *)
(* sequence of its <<key, value>> entries in insertion order.              *)

InSeq(s, e) == \E i \in 1..Len(s) : s[i] = e
SetAdd(s, e) == IF InSeq(s, e) THEN s ELSE Append(s, e)

MapHas(m, k) == \E i \in 1..Len(m) : m[i][1] = k
MapGet(m, k, default) ==
  IF MapHas(m, k) THEN m[CHOOSE i \in 1..Len(m) : m[i][1] = k][2] ELSE default
MapSet(m, k, v) ==
  IF MapHas(m, k)
  THEN [i \in 1..Len(m) |-> IF m[i][1] = k THEN <<k, v>> ELSE m[i]]
  ELSE Append(m, <<k, v>>)

----------------------------------------------------------------------------
(* assignCluster: scan the clusters in index order, join the first one     *)
(* whose centroid is not farther than the tolerance, else push a new one.  *)

tolerance2 == CLUSTER_TOLERANCE * CLUSTER_TOLERANCE

(* Mutant: a centroid exactly at the tolerance is too far *)
TooFar_Exclusive(cluster, x, y) ==
  LET a == x * cluster.x.d - cluster.x.n
      b == y * cluster.y.d - cluster.y.n
      dx2 == cluster.x.d * cluster.x.d
      dy2 == cluster.y.d * cluster.y.d
  IN a * a * dy2 + b * b * dx2 >= tolerance2 * dx2 * dy2

(* Mutant: the distance is compared without being squared *)
TooFar_Unsquared(cluster, x, y) ==
  LET a == x * cluster.x.d - cluster.x.n
      b == y * cluster.y.d - cluster.y.n
  IN a * cluster.y.d + b * cluster.x.d > tolerance2 * cluster.x.d * cluster.y.d

(* dx * dx + dy * dy > tolerance2, with dx = x - cluster.x, dy = y - cluster.y *)
TooFar(cluster, x, y) ==
  LET a == x * cluster.x.d - cluster.x.n
      b == y * cluster.y.d - cluster.y.n
      dx2 == cluster.x.d * cluster.x.d
      dy2 == cluster.y.d * cluster.y.d
  IN a * a * dy2 + b * b * dx2 > tolerance2 * dx2 * dy2

(* Mutant: the count of the joined cluster is not incremented *)
JoinCluster_CountKept(cluster, x, y) ==
  LET newCount == cluster.count + 1
  IN [x |-> RatDivInt(RatAddInt(RatMulInt(cluster.x, cluster.count), x), newCount),
      y |-> RatDivInt(RatAddInt(RatMulInt(cluster.y, cluster.count), y), newCount),
      count |-> cluster.count]

JoinCluster(cluster, x, y) ==
  LET newCount == cluster.count + 1
  IN [x |-> RatDivInt(RatAddInt(RatMulInt(cluster.x, cluster.count), x), newCount),
      y |-> RatDivInt(RatAddInt(RatMulInt(cluster.y, cluster.count), y), newCount),
      count |-> newCount]

RECURSIVE assignClusterFrom(_, _, _, _)
assignClusterFrom(clusters, i, x, y) ==
  IF i < Len(clusters) THEN
    IF TooFar(clusters[i + 1], x, y) THEN assignClusterFrom(clusters, i + 1, x, y)
    ELSE [clusters |-> [clusters EXCEPT ![i + 1] = JoinCluster(clusters[i + 1], x, y)],
          id |-> i]
  ELSE [clusters |-> Append(clusters, [x |-> RatInt(x), y |-> RatInt(y), count |-> 1]),
        id |-> Len(clusters)]

assignCluster(clusters, x, y) == assignClusterFrom(clusters, 0, x, y)

(* Mutant: a node counts a component once, however many of its terminals
   lie on it *)
incTerminal_OncePerComponent(st, nodeId, compIndex) ==
  [st EXCEPT
     !.terminalCounts =
        IF InSeq(MapGet(st.clusterComponents, nodeId, <<>>), compIndex) THEN @
        ELSE MapSet(@, nodeId, MapGet(@, nodeId, 0) + 1),
     !.clusterComponents = MapSet(@, nodeId, SetAdd(MapGet(@, nodeId, <<>>), compIndex))]

(* incTerminal on the pair of maps *)
incTerminal(st, nodeId, compIndex) ==
  [st EXCEPT
     !.terminalCounts = MapSet(@, nodeId, MapGet(@, nodeId, 0) + 1),
     !.clusterComponents = MapSet(@, nodeId, SetAdd(MapGet(@, nodeId, <<>>), compIndex))]

(* Mutant: pin B is clustered before pin A *)
clusterComponent_PinBFirst(st, comp, index) ==
  LET rb == assignCluster(st.clusters, comp.pinB.x, comp.pinB.y)
      ra == assignCluster(rb.clusters, comp.pinA.x, comp.pinA.y)
      st1 == [st EXCEPT !.clusters = ra.clusters,
                        !.componentNodes = Append(@, [a |-> ra.id, b |-> rb.id])]
  IN incTerminal(incTerminal(st1, ra.id, index), rb.id, index)

(* One iteration of components.forEach((comp, index) => ...) *)
clusterComponent(st, comp, index) ==
  LET ra == assignCluster(st.clusters, comp.pinA.x, comp.pinA.y)
      rb == assignCluster(ra.clusters, comp.pinB.x, comp.pinB.y)
      st1 == [st EXCEPT !.clusters = rb.clusters,
                        !.componentNodes = Append(@, [a |-> ra.id, b |-> rb.id])]
  IN incTerminal(incTerminal(st1, ra.id, index), rb.id, index)

EmptyPass ==
  [clusters |-> <<>>, terminalCounts |-> <<>>, clusterComponents |-> <<>>,
   componentNodes |-> <<>>]

RECURSIVE clusterAllFrom(_, _, _)
clusterAllFrom(st, comps, index) ==
  IF index >= Len(comps) THEN st
  ELSE clusterAllFrom(clusterComponent(st, comps[index + 1], index), comps, index + 1)

(* Mutant: the arrays of the previous run are not cleared *)
clusterAll_Stale(comps) == clusterAllFrom(lastPass.integrity.st, comps, 0)

clusterAll(comps) == clusterAllFrom(EmptyPass, comps, 0)

----------------------------------------------------------------------------
(* Dangling check *)

(* Mutant: a component is dangling only when both its nodes are *)
IsDangling_Both(st, nodes) ==
  LET aCount == MapGet(st.terminalCounts, nodes.a, 0)
      bCount == MapGet(st.terminalCounts, nodes.b, 0)
  IN aCount < 2 /\ bCount < 2

IsDangling(st, nodes) ==
  LET aCount == MapGet(st.terminalCounts, nodes.a, 0)
      bCount == MapGet(st.terminalCounts, nodes.b, 0)
  IN aCount < 2 \/ bCount < 2

danglingComponents(st, comps) ==
  FilterHits([i \in 1..Len(st.componentNodes) |->
                IF IsDangling(st, st.componentNodes[i])
                THEN <<canonicalLabel(comps[i], i - 1)>>
                ELSE <<>>])

----------------------------------------------------------------------------
(* Component adjacency and breadth-first traversal *)

(* The (i, j) pairs, i < j, of the nested loops over ids, in loop order *)
RECURSIVE idPairsFrom(_, _, _)
idPairsFrom(ids, i, j) ==
  IF i > Len(ids) THEN <<>>
  ELSE IF j > Len(ids) THEN idPairsFrom(ids, i + 1, i + 2)
  ELSE <<[a |-> ids[i], b |-> ids[j]]>> \o idPairsFrom(ids, i, j + 1)

RECURSIVE addEdges(_, _)
addEdges(adjacency, pairs) ==
  IF pairs = <<>> THEN adjacency
  ELSE LET a == Head(pairs).a
           b == Head(pairs).b
           adj1 == [adjacency EXCEPT ![a + 1] = SetAdd(@, b)]
           adj2 == [adj1 EXCEPT ![b + 1] = SetAdd(@, a)]
       IN addEdges(adj2, Tail(pairs))

RECURSIVE addClusterEdges(_, _)
addClusterEdges(adjacency, entries) ==
  IF entries = <<>> THEN adjacency
  ELSE addClusterEdges(addEdges(adjacency, idPairsFrom(Head(entries)[2], 1, 2)),
                       Tail(entries))

buildAdjacency(st, comps) ==
  addClusterEdges([i \in 1..Len(comps) |-> <<>>], st.clusterComponents)

(* Mutant: a newly visited neighbour is not queued *)
RECURSIVE visitNeighbors_NoPush(_, _)
visitNeighbors_NoPush(vq, neighbors) ==
  IF neighbors = <<>> THEN vq
  ELSE IF InSeq(vq.visited, Head(neighbors))
  THEN visitNeighbors_NoPush(vq, Tail(neighbors))
  ELSE visitNeighbors_NoPush([visited |-> Append(vq.visited, Head(neighbors)),
                              queue |-> vq.queue],
                             Tail(neighbors))

(* adjacency[current].forEach(neighbor => ...) on [visited, queue] *)
RECURSIVE visitNeighbors(_, _)
visitNeighbors(vq, neighbors) ==
  IF neighbors = <<>> THEN vq
  ELSE IF InSeq(vq.visited, Head(neighbors)) THEN visitNeighbors(vq, Tail(neighbors))
  ELSE visitNeighbors([visited |-> Append(vq.visited, Head(neighbors)),
                       queue |-> Append(vq.queue, Head(neighbors))],
                      Tail(neighbors))

RECURSIVE bfsLoop(_, _)
bfsLoop(vq, adjacency) ==
  IF Len(vq.queue) = 0 THEN vq.visited
  ELSE LET current == Head(vq.queue)
       IN bfsLoop(visitNeighbors([visited |-> vq.visited, queue |-> Tail(vq.queue)],
                                 adjacency[current + 1]),
                  adjacency)

bfsVisited(adjacency) == bfsLoop([visited |-> <<0>>, queue |-> <<0>>], adjacency)

----------------------------------------------------------------------------
(* validateCircuitIntegrity: the result and the locals at return *)

NoPass == [attempted |-> FALSE, st |-> EmptyPass, result |-> Ok]

(* Mutant: the traversal is only required to have visited something *)
allVisited_NonEmpty(visited, comps) == Len(visited) # 0

(* visited.size === components.length *)
allVisited(visited, comps) == Len(visited) = Len(comps)

(* Lines 87-167: the body after the empty-list guard *)
(* Mutant: the connectivity check runs before the dangling check *)
validateNonEmpty_ConnectivityFirst(comps) ==
  LET st == clusterAll(comps)
      dangling == danglingComponents(st, comps)
      visited == bfsVisited(buildAdjacency(st, comps))
  IN IF ~allVisited(visited, comps)
     THEN [attempted |-> TRUE, st |-> st,
           result |-> Fail("disconnected", <<>>, FALSE)]
     ELSE IF Len(dangling) > 0
     THEN [attempted |-> TRUE, st |-> st,
           result |-> Fail("dangling", Slice(dangling, PREVIEW_CAP),
                           Len(dangling) > PREVIEW_CAP)]
     ELSE [attempted |-> TRUE, st |-> st, result |-> Ok]

validateNonEmpty(comps) ==
  LET st == clusterAll(comps)
      dangling == danglingComponents(st, comps)
  IN IF Len(dangling) > 0
     THEN [attempted |-> TRUE, st |-> st,
           result |-> Fail("dangling", Slice(dangling, PREVIEW_CAP),
                           Len(dangling) > PREVIEW_CAP)]
     ELSE
       LET visited == bfsVisited(buildAdjacency(st, comps))
       IN IF ~allVisited(visited, comps)
          THEN [attempted |-> TRUE, st |-> st,
                result |-> Fail("disconnected", <<>>, FALSE)]
          ELSE [attempted |-> TRUE, st |-> st, result |-> Ok]

(* Mutant: the empty list is taken to be vacuously valid *)
validateCircuitIntegrity_EmptyAccepted(comps) ==
  IF Len(comps) = 0
  THEN [attempted |-> FALSE, st |-> EmptyPass, result |-> Ok]
  ELSE validateNonEmpty(comps)

validateCircuitIntegrity(comps) ==
  IF Len(comps) = 0
  THEN [attempted |-> FALSE, st |-> EmptyPass, result |-> Fail("empty", <<>>, FALSE)]
  ELSE validateNonEmpty(comps)

----------------------------------------------------------------------------
(* Canvas contents.  The canvas restores its component list from the       *)
(* persisted circuit when it is constructed, so the initial list is any    *)
(* list of components with an id, a type and two pins; the other fields    *)
(* may be absent.                                                          *)

Point(x, y) == [x |-> x, y |-> y]

(* Canvas points on the grid of step 8.  PA and PA2 are one grid step apart,
   so are PB and PB2; the other distances exceed the tolerance. *)
PA == Point(0, 0)
PA2 == Point(8, 0)
PB == Point(24, 0)
PB2 == Point(24, 8)
PC == Point(0, 24)
PD == Point(24, 24)

Times == 1..MaxTime

Component(type, pinA, pinB, value, current, voltage, currentUnknown, voltageUnknown) ==
  [id |-> 0, type |-> type, pinA |-> pinA, pinB |-> pinB, label |-> Undefined,
   value |-> value, current |-> current, voltage |-> voltage,
   currentUnknown |-> currentUnknown, voltageUnknown |-> voltageUnknown]

(* A list whose i-th component carries the id i *)
WithIds(list) == [i \in 1..Len(list) |-> [list[i] EXCEPT !.id = i]]

ListsOver(alphabet, minLen, maxLen) ==
  {WithIds(l) : l \in UNION {[1..n -> alphabet] : n \in minLen..maxLen}}

(* The branches a component may lie on, as <<pinA, pinB>>: one of one grid
   step, two parallel ones a grid step apart, and the sides of a triangle
   and of a square. *)
Branches ==
  {<<PA, PA2>>, <<PA, PB>>, <<PA2, PB2>>,
   <<PB, PD>>, <<PD, PA>>, <<PC, PD>>, <<PC, PA>>}

(* Resistors with a value, as the editor creates them and the inspector    *)
(* fills them in, one on every branch.                                     *)
TopologyComponents ==
  {Component("resistor", p[1], p[2], Some(<<"5">>), Some(<<>>), Some(<<>>),
             Some(TRUE), Some(TRUE)) : p \in Branches}

(* Components of every type and parameter state on one fixed branch *)
FieldStrings == {Undefined, Some(<<>>), Some(<<" ">>), Some(<<"5">>), Some(<<".">>)}
SourceFieldStrings == {Undefined, Some(<<>>), Some(<<" ">>), Some(<<"5">>)}
OtherFieldStrings == {Some(<<>>), Some(<<"5">>)}
Flags == {Undefined, Some(TRUE), Some(FALSE)}

ParameterComponents ==
  LET a == PA
      b == PB
  IN {Component("wire", a, b, Undefined, Undefined, Undefined, Undefined, Undefined)}
     \cup {Component(t, a, b, v, Some(<<>>), Some(<<>>), Some(TRUE), Some(TRUE)) :
             t \in {"resistor", "capacitor", "inductor"}, v \in FieldStrings}
     \cup {Component("voltage_source", a, b, Undefined, c, v, cu, vu) :
             c \in OtherFieldStrings, v \in SourceFieldStrings, cu \in Flags, vu \in Flags}
     \cup {Component("current_source", a, b, Undefined, c, v, cu, vu) :
             c \in SourceFieldStrings, v \in OtherFieldStrings, cu \in Flags, vu \in Flags}

(* The components that close the loop around the component under test *)
FillerComponents ==
  LET a == PA
      b == PB
  IN {Component("wire", a, b, Undefined, Undefined, Undefined, Undefined, Undefined),
      Component("resistor", a, b, Some(<<"5">>), Some(<<>>), Some(<<>>), Some(TRUE), Some(TRUE)),
      Component("resistor", a, b, Some(<<>>), Some(<<>>), Some(<<>>), Some(TRUE), Some(TRUE)),
      Component("voltage_source", a, b, Undefined, Some(<<>>), Some(<<"5">>),
                Some(TRUE), Some(FALSE))}

ParameterLists ==
  {WithIds(<<c>> \o f) :
     c \in ParameterComponents,
     f \in UNION {[1..n -> FillerComponents] : n \in 0..MaxFillers}}

----------------------------------------------------------------------------
(* The state machine *)

(* The inspector before any selection: renderComponent(null) *)
NoSelection ==
  [componentId |-> <<>>, componentType |-> <<>>, currentUnknown |-> FALSE,
   voltageUnknown |-> FALSE, current |-> <<>>, voltage |-> <<>>]

NeverRun ==
  [clicked |-> FALSE, list |-> <<>>, components |-> <<>>, integrity |-> NoPass,
   params |-> <<>>]

InitRest ==
  /\ popup = NoError
  /\ popupVisible = FALSE
  /\ timerSet = FALSE
  /\ storage = <<>>
  /\ pagesOpened = 0
  /\ lastPass = NeverRun
  /\ undoStack = <<>>
  /\ redoStack = <<>>
  /\ eraseMode = FALSE
  /\ watched = <<>>
  /\ wireMode = FALSE
  /\ cloneMode = FALSE
  /\ draftWire = <<>>
  /\ previewComponent = <<>>
  /\ selectedIds = <<>>
  /\ currentTool = <<>>
  /\ keyboardLock = FALSE
  /\ now = 1
  /\ uuids = 0
  /\ inspector = NoSelection
  /\ lastPatch = <<>>
  /\ journal = <<>>

Init ==
  /\ components \in ListsOver(TopologyComponents, 0, MaxComps)
  /\ InitRest

InitParams ==
  /\ components \in ParameterLists
  /\ InitRest

(* getCanvasComponents: getAllComponents returns a copy of every component *)
getCanvasComponents == components

(* showAnalysisErrorPopup(message) *)
showAnalysisErrorPopup(message) ==
  /\ popup' = message
  /\ popupVisible' = TRUE
  /\ timerSet' = TRUE

(* JSON.stringify of a component: a property whose value is undefined is
   left out, every other property is written with its value *)
OptionalKeys ==
  {"label", "value", "current", "voltage", "currentUnknown", "voltageUnknown"}

(* Mutant: empty strings are left out as well *)
jsonComponent_DropsEmpty(comp) ==
  LET present == {k \in {"currentUnknown", "voltageUnknown"} : IsPresent(comp[k])} \cup
                 {k \in {"label", "value", "current", "voltage"} :
                    IsPresent(comp[k]) /\ Get(comp[k]) # <<>>}
  IN [k \in {"id", "type", "pinA", "pinB"} \cup present |->
        IF k \in present THEN Get(comp[k]) ELSE comp[k]]

jsonComponent(comp) ==
  LET present == {k \in OptionalKeys : IsPresent(comp[k])}
  IN [k \in {"id", "type", "pinA", "pinB"} \cup present |->
        IF k \in present THEN Get(comp[k]) ELSE comp[k]]

(* JSON.stringify({ savedAt, circuit: { components } }) *)
snapshotJson(savedAt, comps) ==
  [savedAt |-> savedAt,
   circuit |-> [components |-> [i \in 1..Len(comps) |-> jsonComponent(comps[i])]]]

(* Mutant: the snapshot is stored and the page opened although the
   parameter check failed *)
AnalyzeOutcome_NoParamGate(comps, integrity, params) ==
  IF ~integrity.result.ok THEN
    /\ showAnalysisErrorPopup(integrity.result.error)
    /\ lastPass' = [clicked |-> TRUE, list |-> components, components |-> comps,
                    integrity |-> integrity, params |-> <<>>]
    /\ UNCHANGED <<storage, pagesOpened>>
  ELSE
    /\ pagesOpened < MaxPages
    /\ \E savedAt \in Times : storage' = <<snapshotJson(savedAt, comps)>>
    /\ pagesOpened' = pagesOpened + 1
    /\ lastPass' = [clicked |-> TRUE, list |-> components, components |-> comps,
                    integrity |-> integrity, params |-> <<params>>]
    /\ UNCHANGED <<popup, popupVisible, timerSet>>

(* The click listener of #open-analysis-page after the three calls: the
   popup on a failure, the snapshot and the new page on success *)
AnalyzeOutcome(comps, integrity, params) ==
  IF ~integrity.result.ok THEN
    /\ showAnalysisErrorPopup(integrity.result.error)
    /\ lastPass' = [clicked |-> TRUE, list |-> components, components |-> comps,
                    integrity |-> integrity, params |-> <<>>]
    /\ UNCHANGED <<storage, pagesOpened>>
  ELSE IF ~params.ok THEN
    /\ showAnalysisErrorPopup(params.error)
    /\ lastPass' = [clicked |-> TRUE, list |-> components, components |-> comps,
                    integrity |-> integrity, params |-> <<params>>]
    /\ UNCHANGED <<storage, pagesOpened>>
  ELSE
    /\ pagesOpened < MaxPages
    /\ \E savedAt \in Times : storage' = <<snapshotJson(savedAt, comps)>>
    /\ pagesOpened' = pagesOpened + 1
    /\ lastPass' = [clicked |-> TRUE, list |-> components, components |-> comps,
                    integrity |-> integrity, params |-> <<params>>]
    /\ UNCHANGED <<popup, popupVisible, timerSet>>

(* The history kept of the runs: any one run may be remembered, and once
   one is, it is noted whether a run on another list has followed it *)
Watch ==
  IF watched = <<>> THEN watched' \in {<<>>, <<[pass |-> lastPass', between |-> FALSE]>>}
  ELSE watched' = <<[watched[1] EXCEPT
                       !.between = @ \/ lastPass'.list # watched[1].pass.list]>>

(* Mutant: the handler normalises the components of the canvas in place *)
AnalyzeClick_InPlace ==
  LET comps == normalizeComponentsForAnalysis(getCanvasComponents)
      integrity == validateCircuitIntegrity(comps)
      params == validateComponentParams(comps)
  IN /\ AnalyzeOutcome(comps, integrity, params)
     /\ Watch
     /\ components' = comps
     /\ UNCHANGED <<undoStack, redoStack, eraseMode>>
     /\ UNCHANGED editorVars

(* The click listener of #open-analysis-page *)
AnalyzeClick ==
  LET comps == normalizeComponentsForAnalysis(getCanvasComponents)
      integrity == validateCircuitIntegrity(comps)
      params == validateComponentParams(comps)
  IN /\ AnalyzeOutcome(comps, integrity, params)
     /\ Watch
     /\ UNCHANGED <<components, undoStack, redoStack, eraseMode>>
     /\ UNCHANGED editorVars

(* The timer callback set by showAnalysisErrorPopup *)
PopupTimeout ==
  /\ timerSet
  /\ popupVisible' = FALSE
  /\ timerSet' = FALSE
  /\ UNCHANGED <<components, popup, storage, pagesOpened, lastPass,
                 undoStack, redoStack, eraseMode, watched>>
  /\ UNCHANGED editorVars

Next == AnalyzeClick \/ PopupTimeout

Spec == Init /\ [][Next]_vars

SpecParams == InitParams /\ [][Next]_vars

----------------------------------------------------------------------------
(* The canvas editor (CircuitCanvas, the preview store, the toolbar).      *)
(*                                                                         *)
(* An event handler is a function from the canvas state at the start of    *)
(* the event to the state after it; the handlers of one event are applied  *)
(* one after the other.  c0 is the state the handler's closure and         *)
(* componentsRef.current still show while the event runs, c the state the  *)
(* functional updates queued so far have produced.                         *)
(* Identifiers: String(Date.now()) is the clock value, a positive integer; *)
(* the k-th crypto.randomUUID() is -k, assumed never to repeat; the        *)
(* placeholder "preview" is 0.                                             *)

gridSize == 8

Null == <<>>

Max(a, b) == IF a >= b THEN a ELSE b

(* Math.round(x / step) * step of an integer x: halves round up *)
RoundTo(x, step) == ((2 * x + step) \div (2 * step)) * step

snapToGrid(x, y) ==
  LET step == Max(1, gridSize)
  IN [x |-> RoundTo(x, step), y |-> RoundTo(y, step)]

(* Points the editor computes in floating point from other points are kept
   as terms: the point p moved by <<dx, dy>>, or turned by delta degrees
   about the midpoint of a and b *)
IsPlain(p) == DOMAIN p = {"x", "y"}
Moved(p, dx, dy) ==
  IF IsPlain(p) THEN [x |-> p.x + dx, y |-> p.y + dy]
  ELSE [moved |-> p, dx |-> dx, dy |-> dy]
rotatePoint(p, a, b, delta) == [turned |-> p, a |-> a, b |-> b, delta |-> delta]

Canvas ==
  [components |-> components, undoStack |-> undoStack, redoStack |-> redoStack,
   selectedIds |-> selectedIds, previewComponent |-> previewComponent,
   wireMode |-> wireMode, cloneMode |-> cloneMode, eraseMode |-> eraseMode,
   draftWire |-> draftWire, currentTool |-> currentTool, uuids |-> uuids]

Ids(comps) == [i \in 1..Len(comps) |-> comps[i].id]

(* getLabelPrefix *)
getLabelPrefix(type) ==
  CASE type = "resistor" -> <<"R">>
    [] type = "capacitor" -> <<"C">>
    [] type = "inductor" -> <<"L">>
    [] type = "voltage_source" -> <<"V">>
    [] type = "current_source" -> <<"I">>
    [] OTHER -> Null

UpperCaseLetters ==
  {"A", "B", "C", "D", "E", "F", "G", "H", "I", "J", "K", "L", "M", "N", "O", "P",
   "Q", "R", "S", "T", "U", "V", "W", "X", "Y", "Z"}
DigitValue(ch) == CHOOSE k \in 0..9 : Digit(k) = ch
DecimalDigits == {Digit(k) : k \in 0..9}

RECURSIVE ParseDigits(_)
ParseDigits(s) ==
  IF s = <<>> THEN 0
  ELSE 10 * ParseDigits(SubSeq(s, 1, Len(s) - 1)) + DigitValue(s[Len(s)])

(* label.match(/^([A-Z])(\d+)$/): <<>> or <<letter, number>> *)
MatchLabel(label) ==
  IF /\ Len(label) >= 2
     /\ label[1] \in UpperCaseLetters
     /\ \A i \in 2..Len(label) : label[i] \in DecimalDigits
  THEN <<label[1], ParseDigits(Tail(label))>>
  ELSE Null

(* A label that is absent or "" is falsy *)
HasLabel(comp) == IsPresent(comp.label) /\ Get(comp.label) # <<>>

RECURSIVE maxLabelIndex(_, _)
maxLabelIndex(existing, prefix) ==
  IF existing = <<>> THEN 0
  ELSE LET comp == existing[Len(existing)]
           max == maxLabelIndex(SubSeq(existing, 1, Len(existing) - 1), prefix)
           match == IF HasLabel(comp) THEN MatchLabel(Get(comp.label)) ELSE Null
       IN IF match = Null THEN max
          ELSE IF <<match[1]>> # prefix THEN max
          ELSE Max(max, match[2])

buildLabeledComponent(c, existing) ==
  LET prefix == getLabelPrefix(c.type)
      usedLabels == {Get(existing[i].label) :
                       i \in {e \in 1..Len(existing) : HasLabel(existing[e])}}
      ownMatch == IF HasLabel(c) THEN MatchLabel(Get(c.label)) ELSE Null
      currentUnknownRaw == IF IsPresent(c.currentUnknown) THEN Get(c.currentUnknown) ELSE TRUE
      voltageUnknownRaw == IF IsPresent(c.voltageUnknown) THEN Get(c.voltageUnknown) ELSE TRUE
      same == currentUnknownRaw = voltageUnknownRaw
  IN IF prefix = Null THEN c
     ELSE IF /\ ownMatch # Null
             /\ <<ownMatch[1]>> = prefix
             /\ Get(c.label) \notin usedLabels
     THEN c
     ELSE [c EXCEPT
             !.label = Some(prefix \o NumberToString(maxLabelIndex(existing, prefix) + 1)),
             !.value = IF IsPassive(c.type) THEN (IF IsPresent(@) THEN @ ELSE Some(<<>>))
                       ELSE Undefined,
             !.current = IF IsPresent(@) THEN @ ELSE Some(<<>>),
             !.voltage = IF IsPresent(@) THEN @ ELSE Some(<<>>),
             !.currentUnknown =
                Some(IF c.type = "voltage_source"
                     THEN (IF same THEN TRUE ELSE currentUnknownRaw)
                     ELSE IF c.type = "current_source"
                     THEN (IF same THEN FALSE ELSE currentUnknownRaw)
                     ELSE currentUnknownRaw),
             !.voltageUnknown =
                Some(IF c.type = "voltage_source"
                     THEN (IF same THEN FALSE ELSE voltageUnknownRaw)
                     ELSE IF c.type = "current_source"
                     THEN (IF same THEN TRUE ELSE voltageUnknownRaw)
                     ELSE voltageUnknownRaw)]

(* pushUndo: a copy of componentsRef.current goes on the undo stack *)
pushUndo(c, c0) == [c EXCEPT !.undoStack = Append(@, c0.components)]

addComponent(c, c0, comp) ==
  [pushUndo(c, c0) EXCEPT
     !.components = Append(c.components, buildLabeledComponent(comp, c.components))]

selectAll(c, c0) == [c EXCEPT !.selectedIds = Ids(c0.components)]

removeSelected(c, c0) ==
  IF c.selectedIds = <<>> THEN c
  ELSE [pushUndo(c, c0) EXCEPT
          !.components = SelectSeq(@, LAMBDA comp : ~InSeq(c.selectedIds, comp.id)),
          !.selectedIds = <<>>]

rotateSelected(c, c0, delta) ==
  IF c.selectedIds = <<>> THEN c
  ELSE LET cs == c.components
           turn(comp) == [comp EXCEPT
                            !.pinA = rotatePoint(comp.pinA, comp.pinA, comp.pinB, delta),
                            !.pinB = rotatePoint(comp.pinB, comp.pinA, comp.pinB, delta)]
       IN [pushUndo(c, c0) EXCEPT
             !.components = [i \in 1..Len(cs) |->
                               IF InSeq(c.selectedIds, cs[i].id) THEN turn(cs[i])
                               ELSE cs[i]]]

(* Mutant: undo drops the current list instead of keeping it for redo *)
undo_NoRedo(c, c0) ==
  IF Len(c0.undoStack) = 0 THEN c
  ELSE [c EXCEPT !.undoStack = SubSeq(@, 1, Len(@) - 1),
                 !.components = c0.undoStack[Len(c0.undoStack)]]

undo(c, c0) ==
  IF Len(c0.undoStack) = 0 THEN c
  ELSE [c EXCEPT !.redoStack = <<c0.components>> \o @,
                 !.undoStack = SubSeq(@, 1, Len(@) - 1),
                 !.components = c0.undoStack[Len(c0.undoStack)]]

redo(c, c0) ==
  IF Len(c.redoStack) = 0 THEN c
  ELSE [c EXCEPT !.undoStack = Append(@, c0.components),
                 !.components = Head(c.redoStack),
                 !.redoStack = Tail(@)]

setWireMode(c, active) ==
  IF active
  THEN [c EXCEPT !.wireMode = TRUE, !.cloneMode = FALSE, !.eraseMode = FALSE,
                 !.selectedIds = <<>>]
  ELSE [c EXCEPT !.wireMode = FALSE]

setCloneMode(c, active) ==
  IF active
  THEN [c EXCEPT !.cloneMode = TRUE, !.wireMode = FALSE, !.eraseMode = FALSE,
                 !.draftWire = Null]
  ELSE [c EXCEPT !.cloneMode = FALSE]

setEraseMode(c, active) ==
  IF active
  THEN [c EXCEPT !.eraseMode = TRUE, !.wireMode = FALSE, !.cloneMode = FALSE,
                 !.draftWire = Null, !.selectedIds = <<>>]
  ELSE [c EXCEPT !.eraseMode = FALSE]

clearCircuit(c, c0) ==
  IF Len(c0.components) = 0 THEN c
  ELSE [pushUndo(c, c0) EXCEPT !.components = <<>>, !.selectedIds = <<>>]

clearDraftWire(c) == [c EXCEPT !.draftWire = Null]

(* startPreviewFromComponent: the clone carries a fresh identifier and is
   offset by 5 *)
startPreviewFromComponent(c, original) ==
  [c EXCEPT !.previewComponent =
               Some([original EXCEPT !.id = -(c.uuids + 1),
                                     !.pinA = Moved(@, 5, 5),
                                     !.pinB = Moved(@, 5, 5)]),
            !.uuids = @ + 1]

Find(comps, id) ==
  LET hits == {i \in 1..Len(comps) : comps[i].id = id}
  IN IF hits = {} THEN Null
     ELSE Some(comps[CHOOSE i \in hits : \A j \in hits : i <= j])

cloneSelectedComponent(c, c0) ==
  IF Len(c0.selectedIds) # 1 THEN c
  ELSE LET original == Find(c0.components, c0.selectedIds[1])
       IN IF original = Null THEN c
          ELSE startPreviewFromComponent([c EXCEPT !.selectedIds = <<>>], Get(original))

(* The click listener of the toolbar's toggle buttons, followed by the
   listener of the button itself *)
toggleClick(c, toolType) ==
  LET c1 == [c EXCEPT !.currentTool = Some(toolType)]
      c2 == setEraseMode(setCloneMode(setWireMode(c1, toolType = "wire"),
                                      toolType = "clone"),
                         toolType = "erase")
  IN CASE toolType = "wire" -> setWireMode(c2, TRUE)
       [] toolType = "clone" -> setCloneMode(c2, TRUE)
       [] toolType = "erase" -> setEraseMode(c2, TRUE)
       [] OTHER -> c2

(* setupGrid: the click on a .component-item of the sidebar *)
itemClick(c, type) ==
  LET c1 == IF c.currentTool = Some("wire")
            THEN toggleClick(setWireMode(c, FALSE), "pointer") ELSE c
      at == snapToGrid(1000000, 1000000)
  IN [c1 EXCEPT !.previewComponent =
                   Some(Component(type, Moved(at, -50, 0), Moved(at, 50, 0),
                                  Undefined, Undefined, Undefined, Undefined, Undefined))]

(* onMouseMove of a preview: the preview is centred on the snapped pointer *)
Recentred(prev, snap) ==
  IF /\ IsPlain(prev.pinA) /\ IsPlain(prev.pinB)
     /\ (prev.pinB.x - prev.pinA.x) % 2 = 0
     /\ (prev.pinB.y - prev.pinA.y) % 2 = 0
  THEN LET dx == (prev.pinB.x - prev.pinA.x) \div 2
           dy == (prev.pinB.y - prev.pinA.y) \div 2
       IN [prev EXCEPT !.pinA = Point(snap.x - dx, snap.y - dy),
                       !.pinB = Point(snap.x + dx, snap.y + dy)]
  ELSE [prev EXCEPT !.pinA = [centre |-> snap, pin |-> "a", a |-> prev.pinA, b |-> prev.pinB],
                    !.pinB = [centre |-> snap, pin |-> "b", a |-> prev.pinA, b |-> prev.pinB]]

previewMouseMove(c, x, y) ==
  IF c.previewComponent = Null THEN c
  ELSE [c EXCEPT !.previewComponent = Some(Recentred(Get(@), snapToGrid(x, y)))]

(* onClick of a preview, installed on the canvas: the preview is placed
   with the identifier String(Date.now()) *)
placePreview(c, c0, time) ==
  IF c.previewComponent = Null THEN c
  ELSE [addComponent(c, c0, [Get(c.previewComponent) EXCEPT !.id = time])
          EXCEPT !.previewComponent = Null]

(* onClick of the canvas *)
canvasOnClick(c, c0, x, y) ==
  IF c0.wireMode THEN
    LET snapped == snapToGrid(x, y)
    IN IF c0.draftWire = Null
       THEN [c EXCEPT !.draftWire = Some([pinA |-> snapped, pinB |-> snapped])]
       ELSE LET newWire == [Component("wire", Get(c0.draftWire).pinA, snapped,
                                      Undefined, Undefined, Undefined, Undefined, Undefined)
                              EXCEPT !.id = -(c.uuids + 1)]
            IN [pushUndo(c, c0) EXCEPT !.components = Append(@, newWire),
                                       !.draftWire = Null,
                                       !.uuids = @ + 1]
  ELSE [c EXCEPT !.previewComponent = Null, !.selectedIds = <<>>]

(* onSelect of the component comp *)
onSelect(c, c0, comp) ==
  IF c0.eraseMode
  THEN [pushUndo(c, c0) EXCEPT
          !.components = SelectSeq(@, LAMBDA e : e.id # comp.id),
          !.selectedIds = SelectSeq(@, LAMBDA id : id # comp.id)]
  ELSE IF c0.cloneMode
  THEN startPreviewFromComponent([c EXCEPT !.selectedIds = <<>>], comp)
  ELSE IF ~c0.wireMode THEN [c EXCEPT !.selectedIds = <<comp.id>>]
  ELSE c

(* The keydown listeners.  An event is [key, ctrlKey]; ctrlKey stands for
   ctrlKey || metaKey, and the space bar has the key " ". *)

(* onKeyDown of a preview, installed on the document *)
previewKeyDown(c, e, locked) ==
  IF locked THEN c
  ELSE IF e.key = "Escape" /\ c.previewComponent # Null
  THEN [c EXCEPT !.previewComponent = Null]
  ELSE c

(* The "W" shortcut of the toolbar *)
toolbarKeyDown(c, e, locked) ==
  IF locked THEN c
  ELSE IF e.key \in {"w", "W"}
  THEN (IF c.currentTool = Some("wire") THEN toggleClick(c, "pointer")
        ELSE toggleClick(c, "wire"))
  ELSE c

(* Mutant: the shortcuts do not look at the inspector's keyboard lock *)
setupKeyboardShortcuts_NoLock(c, c0, e, locked) ==
  IF c.currentTool = Some("wire") /\ e.key = "Escape" THEN clearDraftWire(c)
  ELSE IF c0.previewComponent # Null THEN
    (IF e.key = " " THEN c
     ELSE IF e.key = "Escape" THEN [c EXCEPT !.previewComponent = Null]
     ELSE c)
  ELSE IF e.key = " " THEN rotateSelected(c, c0, 45)
  ELSE IF e.key \in {"Backspace", "Delete"} THEN removeSelected(c, c0)
  ELSE IF e.ctrlKey THEN
    (IF e.key \in {"z", "Z"} THEN undo(c, c0)
     ELSE IF e.key \in {"y", "Y"} THEN redo(c, c0)
     ELSE IF e.key \in {"a", "A"} THEN selectAll(c, c0)
     ELSE c)
  ELSE c

(* setupKeyboardShortcuts: the global keydown listener *)
setupKeyboardShortcuts(c, c0, e, locked) ==
  IF locked THEN c
  ELSE IF c.currentTool = Some("wire") /\ e.key = "Escape" THEN clearDraftWire(c)
  ELSE IF c0.previewComponent # Null THEN
    (IF e.key = " " THEN c
     ELSE IF e.key = "Escape" THEN [c EXCEPT !.previewComponent = Null]
     ELSE c)
  ELSE IF e.key = " " THEN rotateSelected(c, c0, 45)
  ELSE IF e.key \in {"Backspace", "Delete"} THEN removeSelected(c, c0)
  ELSE IF e.ctrlKey THEN
    (IF e.key \in {"z", "Z"} THEN undo(c, c0)
     ELSE IF e.key \in {"y", "Y"} THEN redo(c, c0)
     ELSE IF e.key \in {"a", "A"} THEN selectAll(c, c0)
     ELSE c)
  ELSE c

(* handleKeyDown of CircuitCanvas: "C" clones the selected component *)
handleKeyDown(c, c0, e, locked) ==
  IF locked THEN c
  ELSE IF e.key \in {"c", "C"} THEN cloneSelectedComponent(c, c0)
  ELSE c

(* handleEsc of CircuitCanvas, installed while a wire is being drawn *)
handleEsc(c, c0, e, locked) ==
  IF ~(c0.wireMode /\ c0.draftWire # Null) THEN c
  ELSE IF locked THEN c
  ELSE IF e.key = "Escape" THEN [c EXCEPT !.draftWire = Null]
  ELSE c

(* What the controller object handed to setupKeyboardShortcuts sees: main.ts
   takes window.canvasController once, when the canvas is ready, and the
   closures of that object keep the undo stack and the preview of that
   render (both empty); componentsRef is shared and stays current *)
Captured(c0) == [c0 EXCEPT !.undoStack = <<>>, !.previewComponent = Null]

(* One keydown event through all its listeners *)
keyDown(c0, e, locked) ==
  LET c1 == previewKeyDown(c0, e, locked)
      c2 == toolbarKeyDown(c1, e, locked)
      c3 == setupKeyboardShortcuts(c2, Captured(c0), e, locked)
      c4 == handleKeyDown(c3, c0, e, locked)
  IN handleEsc(c4, c0, e, locked)

----------------------------------------------------------------------------
(* The component inspector *)

(* sanitizeNumericInput: the first "," becomes ".", then only the digits
   and the first "." are kept *)
RECURSIVE ReplaceFirstComma(_)
ReplaceFirstComma(raw) ==
  IF raw = <<>> THEN <<>>
  ELSE IF Head(raw) = "," THEN <<".">> \o Tail(raw)
  ELSE <<Head(raw)>> \o ReplaceFirstComma(Tail(raw))

RECURSIVE KeepNumeric(_, _)
KeepNumeric(s, dotUsed) ==
  IF s = <<>> THEN <<>>
  ELSE IF Head(s) \in DecimalDigits THEN <<Head(s)>> \o KeepNumeric(Tail(s), dotUsed)
  ELSE IF Head(s) = "." /\ ~dotUsed THEN <<".">> \o KeepNumeric(Tail(s), TRUE)
  ELSE KeepNumeric(Tail(s), dotUsed)

sanitizeNumericInput(raw) == KeepNumeric(ReplaceFirstComma(raw), FALSE)

OrEmpty(f) == IF IsPresent(f) THEN Get(f) ELSE <<>>

(* Mutant: equal flags of a source are shown as they are *)
renderComponent_FlagsAsStored(ins, comp) ==
  IF comp = Null \/ (comp # Null /\ Get(comp).type = "wire")
  THEN [ins EXCEPT !.componentId = Null, !.componentType = Null]
  ELSE LET cm == Get(comp)
       IN [componentId |-> Some(cm.id), componentType |-> Some(cm.type),
           currentUnknown |-> IF IsPresent(cm.currentUnknown) THEN Get(cm.currentUnknown)
                              ELSE TRUE,
           voltageUnknown |-> IF IsPresent(cm.voltageUnknown) THEN Get(cm.voltageUnknown)
                              ELSE TRUE,
           current |-> OrEmpty(cm.current), voltage |-> OrEmpty(cm.voltage)]

(* renderComponent: the form after the component comp (or null) is shown *)
renderComponent(ins, comp) ==
  IF comp = Null \/ (comp # Null /\ Get(comp).type = "wire")
  THEN [ins EXCEPT !.componentId = Null, !.componentType = Null]
  ELSE LET cm == Get(comp)
           cu == IF IsPresent(cm.currentUnknown) THEN Get(cm.currentUnknown) ELSE TRUE
           vu == IF IsPresent(cm.voltageUnknown) THEN Get(cm.voltageUnknown) ELSE TRUE
           same == cm.type \in {"voltage_source", "current_source"} /\ cu = vu
       IN [componentId |-> Some(cm.id), componentType |-> Some(cm.type),
           currentUnknown |-> IF same THEN cm.type = "voltage_source" ELSE cu,
           voltageUnknown |-> IF same THEN cm.type = "current_source" ELSE vu,
           current |-> OrEmpty(cm.current), voltage |-> OrEmpty(cm.voltage)]

(* The detail of canvas-selection-change: the only selected component *)
Selected(comps, ids) == IF Len(ids) = 1 THEN Find(comps, ids[1]) ELSE Null

(* updateComponent: the patch is merged into every component with the id *)
Merge(comp, patch) ==
  [f \in DOMAIN comp |-> IF f \in DOMAIN patch THEN Some(patch[f]) ELSE comp[f]]

updateComponent(c, id, patch) ==
  [c EXCEPT !.components =
              [i \in 1..Len(@) |-> IF @[i].id = id THEN Merge(@[i], patch) ELSE @[i]]]

(* The change listener of the "current unknown" checkbox, after the browser
   has toggled the box: the patch it applies *)
(* Mutant: the other box is left as it is *)
currentUnknownChange_KeepsOther(ins) ==
  LET unknown == ~ins.currentUnknown
  IN [currentUnknown |-> unknown, voltageUnknown |-> ins.voltageUnknown,
      current |-> IF unknown THEN <<>> ELSE sanitizeNumericInput(ins.current),
      voltage |-> IF ins.voltageUnknown THEN <<>> ELSE sanitizeNumericInput(ins.voltage)]

currentUnknownChange(ins) ==
  LET unknown == ~ins.currentUnknown
      isSource == ins.componentType \in {Some("voltage_source"), Some("current_source")}
      nextCurrentUnknown == unknown
      nextVoltageUnknown == IF nextCurrentUnknown THEN FALSE
                            ELSE IF ~ins.voltageUnknown THEN TRUE
                            ELSE ins.voltageUnknown
  IN IF isSource
     THEN [currentUnknown |-> nextCurrentUnknown, voltageUnknown |-> nextVoltageUnknown,
           current |-> IF nextCurrentUnknown THEN <<>>
                       ELSE sanitizeNumericInput(ins.current),
           voltage |-> IF nextVoltageUnknown THEN <<>>
                       ELSE sanitizeNumericInput(ins.voltage)]
     ELSE IF unknown /\ ins.current # <<>>
     THEN [currentUnknown |-> TRUE, current |-> <<>>]
     ELSE [currentUnknown |-> unknown]

(* The change listener of the "voltage unknown" checkbox *)
voltageUnknownChange(ins) ==
  LET unknown == ~ins.voltageUnknown
      isSource == ins.componentType \in {Some("voltage_source"), Some("current_source")}
      nextVoltageUnknown == unknown
      nextCurrentUnknown == IF nextVoltageUnknown THEN FALSE
                            ELSE IF ~ins.currentUnknown THEN TRUE
                            ELSE ins.currentUnknown
  IN IF isSource
     THEN [voltageUnknown |-> nextVoltageUnknown, currentUnknown |-> nextCurrentUnknown,
           voltage |-> IF nextVoltageUnknown THEN <<>>
                       ELSE sanitizeNumericInput(ins.voltage),
           current |-> IF nextCurrentUnknown THEN <<>>
                       ELSE sanitizeNumericInput(ins.current)]
     ELSE IF unknown /\ ins.voltage # <<>>
     THEN [voltageUnknown |-> TRUE, voltage |-> <<>>]
     ELSE [voltageUnknown |-> unknown]

(* The input listeners of the current and voltage fields *)
currentInput(raw) == [current |-> sanitizeNumericInput(raw)]
voltageInput(raw) == [voltage |-> sanitizeNumericInput(raw)]

(* applyPatch: nothing is applied while no component is shown *)
applyPatch(c, ins, patch) ==
  IF ins.componentId = Null THEN c
  ELSE updateComponent(c, Get(ins.componentId), patch)

(* The state after an event: the canvas state c, and the inspector showing
   the selection *)
Commit(c) ==
  /\ components' = c.components
  /\ undoStack' = c.undoStack
  /\ redoStack' = c.redoStack
  /\ selectedIds' = c.selectedIds
  /\ previewComponent' = c.previewComponent
  /\ wireMode' = c.wireMode
  /\ cloneMode' = c.cloneMode
  /\ eraseMode' = c.eraseMode
  /\ draftWire' = c.draftWire
  /\ currentTool' = c.currentTool
  /\ uuids' = c.uuids
  /\ inspector' = renderComponent(inspector, Selected(c.components, c.selectedIds))

analysisVars == <<popup, popupVisible, timerSet, storage, pagesOpened, lastPass, watched>>

(* The events of the canvas: a click passes the preview's listener on the
   canvas element before it reaches the handlers of CircuitCanvas *)
canvasClick(c0, x, y, time) == canvasOnClick(placePreview(c0, c0, time), c0, x, y)
componentClick(c0, comp, time) == onSelect(placePreview(c0, c0, time), c0, comp)

----------------------------------------------------------------------------
(* The editor operations that change the canvas list between two clicks *)

MaxStack == 1
MaxEditComps == 2

(* A resistor with a value and one without, on the same branch *)
EditComponents ==
  {Component("resistor", PA, PB, v, Some(<<>>), Some(<<>>), Some(TRUE), Some(TRUE)) :
     v \in {Some(<<"5">>), Some(<<>>)}}

InitEdit ==
  /\ components \in ListsOver(EditComponents, 0, MaxEditComps)
  /\ InitRest

(* canvasController.setEraseMode(active) *)
SetEraseMode(active) ==
  /\ Commit(setEraseMode(Canvas, active))
  /\ UNCHANGED <<analysisVars, keyboardLock, now, lastPatch, journal>>

(* onSelect of the component with the given id while the eraser is active *)
EraseComponent(id) ==
  /\ eraseMode
  /\ Find(components, id) # Null
  /\ Len(undoStack) < MaxStack
  /\ Commit(componentClick(Canvas, Get(Find(components, id)), now))
  /\ UNCHANGED <<analysisVars, keyboardLock, now, lastPatch, journal>>

(* canvasController.clearCircuit() *)
ClearCircuit ==
  /\ Len(components) # 0
  /\ Len(undoStack) < MaxStack
  /\ Commit(clearCircuit(Canvas, Canvas))
  /\ UNCHANGED <<analysisVars, keyboardLock, now, lastPatch, journal>>

(* canvasController.undo() *)
Undo ==
  /\ Len(undoStack) # 0
  /\ Len(redoStack) < MaxStack
  /\ Commit(undo(Canvas, Canvas))
  /\ UNCHANGED <<analysisVars, keyboardLock, now, lastPatch, journal>>

NextEdit ==
  \/ AnalyzeClick
  \/ PopupTimeout
  \/ \E active \in BOOLEAN : SetEraseMode(active)
  \/ \E id \in 1..MaxEditComps : EraseComponent(id)
  \/ ClearCircuit
  \/ Undo

SpecEdit == InitEdit /\ [][NextEdit]_vars

(* The same editor with the history variable left empty: watched records a
   past run for the properties only and no handler reads it, so the handlers
   behave as under SpecEdit *)
AnalyzeClickUnwatched == AnalyzeClick /\ watched' = <<>>

NextSnapshot ==
  \/ AnalyzeClickUnwatched
  \/ PopupTimeout
  \/ \E active \in BOOLEAN : SetEraseMode(active)
  \/ \E id \in 1..MaxEditComps : EraseComponent(id)
  \/ ClearCircuit
  \/ Undo

SpecSnapshot == InitEdit /\ [][NextSnapshot]_vars

----------------------------------------------------------------------------
(* The events of the editor as actions *)

MaxPlaced == 2
MaxUndo == 2

ToolTypes == {"pointer", "wire", "clone", "erase"}

(* Pointer positions on the canvas, before snapping *)
Pointers == {Point(1, 0), Point(4, 0), Point(13, 3)}

(* The canvas state stays within the bounds of the model *)
Bounded(c) ==
  /\ Len(c.components) <= MaxPlaced
  /\ Len(c.undoStack) <= MaxUndo
  /\ Len(c.redoStack) <= MaxUndo
  /\ c.uuids <= MaxPlaced

(* A click on a toggle button of the toolbar *)
ToolClick(toolType) ==
  /\ Commit(toggleClick(Canvas, toolType))
  /\ journal' = <<>>
  /\ UNCHANGED <<analysisVars, keyboardLock, now, lastPatch>>

(* A preview is created off the canvas and follows the pointer: by the time
   of a click on the canvas the pointer has moved over it *)
PointerOverCanvas ==
  IF previewComponent = Null THEN TRUE
  ELSE Get(previewComponent).pinA # Moved(snapToGrid(1000000, 1000000), -50, 0)

(* A click on the canvas at the pointer position p *)
CanvasClick(p) ==
  LET c == canvasClick(Canvas, p.x, p.y, now)
  IN /\ PointerOverCanvas
     /\ Bounded(c)
     /\ Commit(c)
     /\ journal' = <<>>
     /\ UNCHANGED <<analysisVars, keyboardLock, now, lastPatch>>

InitGrid ==
  /\ components = <<>>
  /\ InitRest

NextGrid ==
  \/ \E toolType \in ToolTypes : ToolClick(toolType)
  \/ \E p \in Pointers : CanvasClick(p)
  \/ AnalyzeClick
  \/ PopupTimeout

(* Wires drawn on the default grid, and the analysis of what was drawn *)
SpecGrid == InitGrid /\ [][NextGrid]_vars

MaxClock == 2

(* A click on a .component-item of the sidebar *)
ItemClick(type) ==
  /\ Commit(itemClick(Canvas, type))
  /\ journal' = <<>>
  /\ UNCHANGED <<analysisVars, keyboardLock, now, lastPatch>>

(* The pointer moves over the canvas while a preview follows it *)
MouseMove(p) ==
  /\ previewComponent # Null
  /\ Commit(previewMouseMove(Canvas, p.x, p.y))
  /\ journal' = <<>>
  /\ UNCHANGED <<analysisVars, keyboardLock, now, lastPatch>>

(* A click on the i-th component drawn on the canvas *)
ComponentClick(i) ==
  /\ i \in 1..Len(components)
  /\ PointerOverCanvas
  /\ LET c == componentClick(Canvas, components[i], now)
     IN /\ Bounded(c)
        /\ Commit(c)
  /\ journal' = <<>>
  /\ UNCHANGED <<analysisVars, keyboardLock, now, lastPatch>>

(* A millisecond of Date.now() passes *)
Tick ==
  /\ now < MaxClock
  /\ now' = now + 1
  /\ UNCHANGED <<components, undoStack, redoStack, eraseMode, analysisVars,
                 wireMode, cloneMode, draftWire, previewComponent, selectedIds,
                 currentTool, keyboardLock, uuids, inspector, lastPatch, journal>>

(* Sources as an earlier session left them in localStorage: no unknown
   flags, no fields; their identifiers are those of that session *)
RestoredSources ==
  {[Component(type, PA, PB, Undefined, Undefined, Undefined, Undefined, Undefined)
      EXCEPT !.id = -100, !.label = Some(getLabelPrefix(type) \o <<"1">>)] :
     type \in {"voltage_source", "current_source"}}

SourceTypes == {"voltage_source", "current_source"}

InitSource ==
  /\ components \in {<<>>} \cup {<<comp>> : comp \in RestoredSources}
  /\ InitRest

(* One place of the canvas where the sources are put down *)
SourcePointers == {Point(4, 0)}

NextSource ==
  \/ \E type \in SourceTypes : ItemClick(type)
  \/ \E p \in SourcePointers : MouseMove(p)
  \/ \E p \in SourcePointers : CanvasClick(p)
  \/ \E i \in 1..MaxPlaced : ComponentClick(i)
  \/ AnalyzeClickUnwatched

(* Sources restored, created, selected and analysed *)
SpecSource == InitSource /\ [][NextSource]_vars

NextPlace ==
  \/ \E type \in {"resistor"} : ItemClick(type)
  \/ \E p \in SourcePointers : MouseMove(p)
  \/ \E p \in SourcePointers : CanvasClick(p)
  \/ \E toolType \in ToolTypes : ToolClick(toolType)
  \/ \E i \in 1..MaxPlaced : ComponentClick(i)
  \/ Tick

(* Components, clones and wires put on an empty canvas while the clock runs *)
SpecPlace == InitGrid /\ [][NextPlace]_vars

MaxKeyUndo == 1

(* A keydown event on the window, through every listener; the event is
   remembered with the state it met *)
KeyDown(e) ==
  LET c == keyDown(Canvas, e, keyboardLock)
  IN /\ Bounded(c)
     /\ Len(c.undoStack) + Len(c.redoStack) <= MaxKeyUndo
     /\ Commit(c)
     /\ journal' = <<[op |-> "keydown", e |-> e, locked |-> keyboardLock,
                     before |-> Canvas]>>
     /\ UNCHANGED <<analysisVars, keyboardLock, now, lastPatch>>

(* syncKeyboardLock: a field of the inspector's form takes the focus *)
FocusIn ==
  /\ inspector.componentId # Null
  /\ ~keyboardLock
  /\ keyboardLock' = TRUE
  /\ journal' = <<>>
  /\ UNCHANGED <<components, undoStack, redoStack, eraseMode, analysisVars,
                 wireMode, cloneMode, draftWire, previewComponent, selectedIds,
                 currentTool, now, uuids, inspector, lastPatch>>

(* syncKeyboardLock: the focus leaves the inspector *)
FocusOut ==
  /\ keyboardLock
  /\ keyboardLock' = FALSE
  /\ journal' = <<>>
  /\ UNCHANGED <<components, undoStack, redoStack, eraseMode, analysisVars,
                 wireMode, cloneMode, draftWire, previewComponent, selectedIds,
                 currentTool, now, uuids, inspector, lastPatch>>

(* The keys the listeners look at *)
Keys ==
  {[key |-> k, ctrlKey |-> FALSE] : k \in {"Backspace", "Delete", " ", "Escape", "w", "c"}}
    \cup {[key |-> k, ctrlKey |-> TRUE] : k \in {"z", "y", "a"}}

(* A resistor that an earlier session left on the canvas *)
StoredResistor ==
  [Component("resistor", PA, PB, Some(<<"5">>), Undefined, Undefined, Undefined, Undefined)
     EXCEPT !.id = -100, !.label = Some(<<"R", "1">>)]

InitKeys ==
  /\ components = <<StoredResistor>>
  /\ InitRest

(* A click on the canvas that leaves the history within the bound *)
KeyCanvasClick(p) ==
  /\ Len(canvasClick(Canvas, p.x, p.y, now).undoStack) + Len(redoStack) <= MaxKeyUndo
  /\ CanvasClick(p)

NextKeys ==
  \/ \E p \in SourcePointers : KeyCanvasClick(p)
  \/ \E i \in 1..MaxPlaced : ComponentClick(i)
  \/ \E e \in Keys : KeyDown(e)
  \/ FocusIn
  \/ FocusOut

(* The editor driven by the mouse and the keyboard *)
SpecKeys == InitKeys /\ [][NextKeys]_vars

(* The last two calls of undo and redo, each with the component list and
   the emptiness of its stack at the call *)
Journal(op, empty) ==
  LET entry == [op |-> op, before |-> components, empty |-> empty]
  IN IF journal = <<>> THEN <<entry>> ELSE <<journal[Len(journal)], entry>>

(* window.canvasController.undo() *)
UndoCall ==
  LET c == undo(Canvas, Canvas)
  IN /\ Bounded(c)
     /\ Commit(c)
     /\ journal' = Journal("undo", Len(undoStack) = 0)
     /\ UNCHANGED <<analysisVars, keyboardLock, now, lastPatch>>

(* window.canvasController.redo() *)
RedoCall ==
  LET c == redo(Canvas, Canvas)
  IN /\ Bounded(c)
     /\ Commit(c)
     /\ journal' = Journal("redo", Len(redoStack) = 0)
     /\ UNCHANGED <<analysisVars, keyboardLock, now, lastPatch>>

NextHistory ==
  \/ \E toolType \in {"wire", "erase"} : ToolClick(toolType)
  \/ \E p \in SourcePointers : CanvasClick(p)
  \/ \E i \in 1..MaxPlaced : ComponentClick(i)
  \/ UndoCall
  \/ RedoCall

(* Wires drawn, components erased, and the history walked *)
SpecHistory == InitKeys /\ [][NextHistory]_vars

(* An event of the inspector's form: the form is visible, the element takes
   the focus, and its listener applies the patch *)
InspectorEvent(patch) ==
  /\ Commit(applyPatch(Canvas, inspector, patch))
  /\ lastPatch' = Some([id |-> Get(inspector.componentId), patch |-> patch])
  /\ keyboardLock' = TRUE
  /\ journal' = <<>>
  /\ UNCHANGED <<analysisVars, now>>

FormVisible == inspector.componentId # Null

CurrentUnknownChange ==
  /\ FormVisible
  /\ InspectorEvent(currentUnknownChange(inspector))

VoltageUnknownChange ==
  /\ FormVisible
  /\ InspectorEvent(voltageUnknownChange(inspector))

(* Typing into a field; a disabled field takes no input *)
CurrentInput(raw) ==
  /\ FormVisible
  /\ ~inspector.currentUnknown
  /\ InspectorEvent(currentInput(raw))

VoltageInput(raw) ==
  /\ FormVisible
  /\ ~inspector.voltageUnknown
  /\ InspectorEvent(voltageInput(raw))

(* What is typed into a field *)
Typed == {<<"5">>, <<"2", ",", "5", "x">>}

(* One stored source with any flags and fields *)
InspectedSources ==
  {[Component(type, PA, PB, Undefined, current, voltage, cu, vu)
      EXCEPT !.id = -100, !.label = Some(getLabelPrefix(type) \o <<"1">>)] :
     type \in SourceTypes, current \in {Undefined, Some(<<"7">>)},
     voltage \in {Undefined, Some(<<"7">>)}, cu \in Flags, vu \in Flags}

InitInspector ==
  /\ components \in {<<comp>> : comp \in InspectedSources}
  /\ InitRest

NextInspector ==
  \/ \E i \in 1..MaxPlaced : ComponentClick(i)
  \/ CurrentUnknownChange
  \/ VoltageUnknownChange
  \/ \E raw \in Typed : CurrentInput(raw)
  \/ \E raw \in Typed : VoltageInput(raw)

(* A stored source edited through the inspector *)
SpecInspector == InitInspector /\ [][NextInspector]_vars

----------------------------------------------------------------------------
(* Vocabulary of the properties *)

Clicked == lastPass.clicked
Integrity == lastPass.integrity
Pass == lastPass.integrity.st
N == Len(components)
Indices == 0..(N - 1)

NodeA(i) == Pass.componentNodes[i + 1].a
NodeB(i) == Pass.componentNodes[i + 1].b
NodesOf(i) == {NodeA(i), NodeB(i)}

(* The member count of a node: the count of its cluster *)
MemberCount(k) == Pass.clusters[k + 1].count

HasDanglingNode(i) == MemberCount(NodeA(i)) < 2 \/ MemberCount(NodeB(i)) < 2
DanglingIndices == {i \in Indices : HasDanglingNode(i)}

(* The names of the components of a set of indices, in list order *)
RECURSIVE NamesFrom(_, _)
NamesFrom(S, i) ==
  IF i >= N THEN <<>>
  ELSE (IF i \in S THEN <<canonicalLabel(components[i + 1], i)>> ELSE <<>>)
       \o NamesFrom(S, i + 1)

(* Two components are adjacent iff they share at least one node id *)
Adjacent(i, j) == i # j /\ NodesOf(i) \cap NodesOf(j) # {}

RECURSIVE ReachableFrom(_)
ReachableFrom(S) ==
  LET T == S \cup {j \in Indices : \E i \in S : Adjacent(i, j)}
  IN IF T = S THEN S ELSE ReachableFrom(T)

AllReachable == ReachableFrom({0}) = Indices

(* C1: an empty component list fails with the empty-circuit error, and no
   cluster is created and no terminal assigned on the way. *)
C1_EmptyListFails ==
  (Clicked /\ N = 0) =>
    /\ Integrity.result = Fail("empty", <<>>, FALSE)
    /\ popup = Integrity.result.error
    /\ ~Integrity.attempted
    /\ Pass.clusters = <<>> /\ Pass.componentNodes = <<>>
    /\ Pass.terminalCounts = <<>>

C1_Witness == Clicked /\ N = 0 /\ popup.kind = "empty"

(* C2: a non-empty list passes integrity validation exactly when no
   component is dangling and every component is reachable from component 0
   through shared nodes; a dangling-free list with an unreachable component
   fails as not fully interconnected. *)
C2_SuccessIffCoveredAndConnected ==
  (Clicked /\ N > 0) =>
    /\ Integrity.result.ok <=> (DanglingIndices = {} /\ AllReachable)
    /\ (DanglingIndices = {} /\ ~AllReachable) =>
         Integrity.result = Fail("disconnected", <<>>, FALSE)

C2_Witness ==
  /\ Clicked /\ N >= 3 /\ Integrity.result.ok
  /\ Len(Pass.clusters) >= 2
  /\ \E i \in Indices : i # 0 /\ ~Adjacent(0, i)

(* C3: the components reported as dangling are exactly those with a node of
   member count below 2, and the validation fails with the dangling error
   whenever there is one. *)
C3_DanglingReported ==
  (Clicked /\ N > 0) =>
    LET names == NamesFrom(DanglingIndices, 0)
    IN /\ DanglingIndices # {} =>
            Integrity.result = Fail("dangling", Slice(names, PREVIEW_CAP),
                                    Len(names) > PREVIEW_CAP)
       /\ Integrity.result.error.kind = "dangling" => DanglingIndices # {}

C3_Witness ==
  /\ Clicked /\ N >= 3 /\ Integrity.result.error.kind = "dangling"
  /\ DanglingIndices # {} /\ DanglingIndices # Indices
  /\ \E i \in DanglingIndices : MemberCount(NodeA(i)) >= 2 \/ MemberCount(NodeB(i)) >= 2

(* A terminal of component i lies on a node that no terminal of any other
   component touches *)
HasLonelyTerminal(i) ==
  \E k \in NodesOf(i) : \A j \in Indices \ {i} : k \notin NodesOf(j)

(* C4: integrity validation never succeeds for a list with a component one
   of whose terminals lies on a node touched by no other component; a single
   isolated component fails as dangling whatever its length. *)
C4_LonelyTerminalNeverValid ==
  (Clicked /\ N > 0) =>
    /\ (\E i \in Indices : HasLonelyTerminal(i)) => ~Integrity.result.ok
    /\ N = 1 => Integrity.result.error.kind = "dangling"

(* The components of a set of indices, in list order, as a list of their own *)
RECURSIVE SublistFrom(_, _)
SublistFrom(S, i) ==
  IF i >= N THEN <<>>
  ELSE (IF i \in S THEN <<lastPass.components[i + 1]>> ELSE <<>>) \o SublistFrom(S, i + 1)

ValidAlone(S) == validateCircuitIntegrity(SublistFrom(S, 0)).result.ok

CoordsOf(S) == UNION {{components[i + 1].pinA, components[i + 1].pinB} : i \in S}
NodesOfGroup(S) == UNION {NodesOf(i) : i \in S}

(* The two pins of the component are farther apart than the tolerance *)
LongerThanTolerance(i) ==
  LET dx == components[i + 1].pinB.x - components[i + 1].pinA.x
      dy == components[i + 1].pinB.y - components[i + 1].pinA.y
  IN dx * dx + dy * dy > CLUSTER_TOLERANCE * CLUSTER_TOLERANCE

(* The splits of the list into two non-empty groups, named by the group of
   component 0 *)
Splits == {G \in SUBSET Indices : 0 \in G /\ G # Indices}

(* C5 as stated: two sub-circuits, each valid on its own, that share no
   terminal coordinate always fail with the disconnected-circuit error when
   combined.  Stated for components longer than the tolerance, so that no
   sub-circuit is valid only because a component closes on itself. *)
C5_DisjointCoordinatesDisconnected ==
  (Clicked /\ N >= 2 /\ \A i \in Indices : LongerThanTolerance(i)) =>
    \A G \in Splits :
      ( /\ CoordsOf(G) \cap CoordsOf(Indices \ G) = {}
        /\ ValidAlone(G)
        /\ ValidAlone(Indices \ G) )
      => Integrity.result = Fail("disconnected", <<>>, FALSE)

(* C5 amended: two sub-circuits, each valid on its own, combined so that
   clustering puts no terminal of one group on a node of the other, always
   fail with the disconnected-circuit error. *)
C5_DisjointNodesDisconnected ==
  (Clicked /\ N >= 2) =>
    \A G \in Splits :
      ( /\ NodesOfGroup(G) \cap NodesOfGroup(Indices \ G) = {}
        /\ ValidAlone(G)
        /\ ValidAlone(Indices \ G) )
      => Integrity.result = Fail("disconnected", <<>>, FALSE)

C5_Witness ==
  /\ Clicked /\ N = 4 /\ \A i \in Indices : LongerThanTolerance(i)
  /\ Integrity.result.error.kind = "disconnected"
  /\ \E G \in Splits :
       /\ NodesOfGroup(G) \cap NodesOfGroup(Indices \ G) = {}
       /\ ValidAlone(G)
       /\ ValidAlone(Indices \ G)

----------------------------------------------------------------------------
(* Vocabulary of the parameter properties *)

ParamsRan == Clicked /\ Integrity.result.ok
ParamsResult == lastPass.params[1]

Valore == <<"v", "a", "l", "o", "r", "e">>
Tensione == <<"t", "e", "n", "s", "i", "o", "n", "e">>
Corrente == <<"c", "o", "r", "r", "e", "n", "t", "e">>

(* The entry "NAME (reason)" of component i in the missing-parameter error *)
Entry(i, reason) ==
  canonicalLabel(components[i + 1], i) \o <<" ", "(">> \o reason \o <<")">>

(* Component i is reported by the parameter check: its entry is among the
   previewed ones, or lies beyond the preview of an overflowing list *)
Reported(i, reason) ==
  /\ ~ParamsResult.ok
  /\ ParamsResult.error.kind = "params"
  /\ InSeq(ParamsResult.error.names, Entry(i, reason)) \/ ParamsResult.error.more

Listed(i) ==
  /\ ~ParamsResult.ok
  /\ \E reason \in {Valore, Tensione, Corrente} :
       InSeq(ParamsResult.error.names, Entry(i, reason))

(* The field is absent or holds no character other than whitespace *)
IsBlankField(f) == ~IsPresent(f) \/ \A k \in 1..Len(Get(f)) : Get(f)[k] = " "

IsEmptyField(f) == ~IsPresent(f) \/ Get(f) = <<>>

(* Digits with at most one decimal point and at least one digit *)
IsDigit(ch) == ch \in {"0", "1", "2", "3", "4", "5", "6", "7", "8", "9"}
LooksNumeric(str) ==
  /\ \E k \in 1..Len(str) : IsDigit(str[k])
  /\ \A k \in 1..Len(str) : IsDigit(str[k]) \/ str[k] = "."
  /\ Cardinality({k \in 1..Len(str) : str[k] = "."}) <= 1

TypeOf(i) == components[i + 1].type
Normalized(i) == lastPass.components[i + 1]

UnflaggedEmptyVoltageSource(i) ==
  /\ TypeOf(i) = "voltage_source"
  /\ IsEmptyField(components[i + 1].voltage)
  /\ components[i + 1].voltageUnknown = Undefined

UnflaggedEmptyCurrentSource(i) ==
  /\ TypeOf(i) = "current_source"
  /\ IsEmptyField(components[i + 1].current)
  /\ components[i + 1].currentUnknown = Undefined

(* C6 as stated: on the submission path a voltage source with an empty
   voltage field and no explicit unknown flag is treated as voltage-unknown
   and passes the parameter check; likewise a current source. *)
C6_UnflaggedEmptySourcePasses ==
  ParamsRan =>
    \A i \in Indices :
      /\ UnflaggedEmptyVoltageSource(i) =>
           Normalized(i).voltageUnknown = Some(TRUE) /\ ~Listed(i)
      /\ UnflaggedEmptyCurrentSource(i) =>
           Normalized(i).currentUnknown = Some(TRUE) /\ ~Listed(i)

(* C6 amended: such a voltage source is normalised to voltage unknown and
   current known, and the parameter check reports it as missing its voltage
   ("tensione"); likewise a current source is normalised to current unknown
   and voltage known and reported as missing its current ("corrente"). *)
C6_UnflaggedEmptySourceReported ==
  ParamsRan =>
    \A i \in Indices :
      /\ UnflaggedEmptyVoltageSource(i) =>
           /\ Normalized(i).voltageUnknown = Some(TRUE)
           /\ Normalized(i).currentUnknown = Some(FALSE)
           /\ Reported(i, Tensione)
      /\ UnflaggedEmptyCurrentSource(i) =>
           /\ Normalized(i).currentUnknown = Some(TRUE)
           /\ Normalized(i).voltageUnknown = Some(FALSE)
           /\ Reported(i, Corrente)

C6_Witness ==
  /\ ParamsRan
  /\ \E i \in Indices : UnflaggedEmptyVoltageSource(i) /\ Listed(i)
  /\ popup.kind = "params" /\ storage = <<>>

PassiveTypes == {"resistor", "capacitor", "inductor"}

(* The component lacks its characteristic parameter *)
LacksParameter(i) ==
  \/ TypeOf(i) \in PassiveTypes /\ IsBlankField(components[i + 1].value)
  \/ TypeOf(i) = "voltage_source" /\ IsBlankField(components[i + 1].voltage)
  \/ TypeOf(i) = "current_source" /\ IsBlankField(components[i + 1].current)

ReasonOf(i) ==
  IF TypeOf(i) = "voltage_source" THEN Tensione
  ELSE IF TypeOf(i) = "current_source" THEN Corrente
  ELSE Valore

(* C7: a component that lacks its characteristic parameter blocks the
   analysis: nothing is stored and no page is opened, and when the
   parameter check runs it reports the component. *)
C7_MissingParameterBlocks ==
  Clicked =>
    \A i \in Indices :
      LacksParameter(i) =>
        /\ storage = <<>> /\ pagesOpened = 0
        /\ popup.kind # "none"
        /\ Integrity.result.ok => Reported(i, ReasonOf(i))

C7_Witness ==
  /\ ParamsRan /\ popup.kind = "params"
  /\ \E i \in Indices : TypeOf(i) = "inductor" /\ LacksParameter(i) /\ Listed(i)

(* C8 as stated: a passive component passes the parameter check exactly
   when its value field is a non-empty parsable string. *)
C8_PassesIffParsable ==
  ParamsRan =>
    \A i \in Indices :
      TypeOf(i) \in PassiveTypes =>
        (~Listed(i) <=>
           /\ IsPresent(components[i + 1].value)
           /\ Get(components[i + 1].value) # <<>>
           /\ LooksNumeric(Get(components[i + 1].value)))

(* C8 amended: a passive component passes the parameter check exactly when
   its value field is a string with a character other than whitespace,
   parsable or not; with an empty value it is reported as missing its value
   ("valore"). *)
C8_PassesIffNonBlank ==
  ParamsRan =>
    \A i \in Indices :
      TypeOf(i) \in PassiveTypes =>
        /\ ~Listed(i) <=> ~IsBlankField(components[i + 1].value)
        /\ IsBlankField(components[i + 1].value) => Reported(i, Valore)

C8_Witness ==
  /\ ParamsRan
  /\ \E i \in Indices :
       /\ TypeOf(i) = "resistor" /\ components[i + 1].value = Some(<<".">>)
       /\ ~Listed(i)
  /\ \E i \in Indices :
       /\ TypeOf(i) = "resistor" /\ components[i + 1].value = Some(<<>>)
       /\ Listed(i)

IsSource(type) == type \in {"voltage_source", "current_source"}

(* C9: after normalisation every source has exactly one of voltageUnknown
   and currentUnknown set to true, whatever its incoming flags and fields. *)
C9_ExactlyOneUnknown ==
  Clicked =>
    \A i \in Indices :
      IsSource(TypeOf(i)) =>
        /\ Normalized(i).voltageUnknown \in {Some(TRUE), Some(FALSE)}
        /\ Normalized(i).currentUnknown \in {Some(TRUE), Some(FALSE)}
        /\ (Normalized(i).voltageUnknown = Some(TRUE))
             # (Normalized(i).currentUnknown = Some(TRUE))

C9_Witness ==
  /\ Clicked
  /\ \E i \in Indices :
       /\ TypeOf(i) = "voltage_source"
       /\ components[i + 1].voltageUnknown = Some(TRUE)
       /\ components[i + 1].currentUnknown = Some(TRUE)
       /\ Normalized(i).voltageUnknown = Some(FALSE)

(* The node ids of the 2n terminals in processing order: component order,
   pin A before pin B *)
TerminalNodes ==
  [j \in 1..(2 * Len(Pass.componentNodes)) |->
     IF j % 2 = 1 THEN Pass.componentNodes[(j + 1) \div 2].a
     ELSE Pass.componentNodes[j \div 2].b]

RECURSIVE SumCounts(_)
SumCounts(clusters) ==
  IF clusters = <<>> THEN 0 ELSE Head(clusters).count + SumCounts(Tail(clusters))

(* C10: clustering a non-empty list of n components gives each of the 2n
   terminals one node id, the ids are 0..k-1 allocated in order of first
   encounter, and the member counts of the nodes sum to 2n. *)
C10_NodeIdsContiguousInOrder ==
  (Clicked /\ N > 0) =>
    LET k == Len(Pass.clusters)
    IN /\ Len(Pass.componentNodes) = N
       /\ {TerminalNodes[j] : j \in 1..(2 * N)} = 0..(k - 1)
       /\ \A j \in 1..(2 * N) :
            TerminalNodes[j] <= Cardinality({TerminalNodes[m] : m \in 1..(j - 1)})
       /\ SumCounts(Pass.clusters) = 2 * N

C10_Witness ==
  /\ Clicked /\ N >= 3
  /\ Len(Pass.clusters) >= 3
  /\ \E c \in 1..Len(Pass.clusters) : Pass.clusters[c].count >= 3
  /\ \E i \in Indices : NodeA(i) > NodeB(i)

----------------------------------------------------------------------------
(* Clustering of terminals that lie on one line, off the 8-unit grid as a  *)
(* persisted or dragged circuit may have them.                             *)

MaxLineComps == 3

LineXs == {0, 8, 12, 16}

(* A point-like component at every position, and the components that span
   from the first position to each of the others *)
LineBranches ==
  {<<Point(a, 0), Point(a, 0)>> : a \in LineXs} \cup
  {<<Point(0, 0), Point(b, 0)>> : b \in LineXs \ {0}}

LineComponents ==
  {Component("resistor", p[1], p[2], Some(<<"5">>), Some(<<>>), Some(<<>>),
             Some(TRUE), Some(TRUE)) : p \in LineBranches}

InitLine ==
  /\ components \in ListsOver(LineComponents, 0, MaxLineComps)
  /\ InitRest

SpecLine == InitLine /\ [][Next]_vars

(* The 2n terminal points in processing order: component order, pin A
   before pin B *)
TerminalPoints ==
  [j \in 1..(2 * N) |->
     IF j % 2 = 1 THEN components[(j + 1) \div 2].pinA
     ELSE components[j \div 2].pinB]

(* The clusters array after each terminal from the j-th on, starting from
   the array before the j-th *)
RECURSIVE TraceFrom(_, _)
TraceFrom(clusters, j) ==
  IF j > 2 * N THEN <<>>
  ELSE LET next == assignCluster(clusters, TerminalPoints[j].x, TerminalPoints[j].y).clusters
       IN <<next>> \o TraceFrom(next, j + 1)

(* The clusters array before the first terminal and after each terminal:
   entry j + 1 is the array after the first j terminals *)
ClusterTrace == <<<<>>>> \o TraceFrom(<<>>, 1)

(* The terminals among the first j that were assigned to node k, given the
   node ids of the terminals *)
MembersAt(ids, k, j) == {m \in 1..j : ids[m] = k}

(* The point p is no farther than the tolerance from the centroid of the
   cluster: (p.x - cx)^2 + (p.y - cy)^2 <= 8 * 8, over the rationals *)
WithinTolerance(cluster, p) ==
  LET ex == p.x * cluster.x.d - cluster.x.n
      ey == p.y * cluster.y.d - cluster.y.n
  IN (ex * ex) * (cluster.y.d * cluster.y.d) + (ey * ey) * (cluster.x.d * cluster.x.d)
       <= 64 * (cluster.x.d * cluster.x.d) * (cluster.y.d * cluster.y.d)

(* Every one of the terminals M is within the tolerance of the centroid *)
NearEveryMember(centroid, pts, M) == \A m \in M : WithinTolerance(centroid, pts[m])

(* C11 as stated: at the moment a terminal is assigned to a node, the
   centroid of that node, taken before or after it is updated, is no farther
   than the tolerance from every member point of the node. *)
C11_CentroidNearEveryMember ==
  (Clicked /\ N > 0) =>
    LET trace == ClusterTrace
        pts == TerminalPoints
        ids == TerminalNodes
    IN \A j \in 1..(2 * N) :
         LET k == ids[j]
             M == MembersAt(ids, k, j)
         IN \/ k < Len(trace[j]) /\ NearEveryMember(trace[j][k + 1], pts, M)
            \/ NearEveryMember(trace[j + 1][k + 1], pts, M)

(* C11: at the moment a terminal is assigned to a node, the terminal itself
   is no farther than the tolerance from the centroid of that node, both as
   the centroid stood before the assignment and as it stands after it; a new
   node starts at the terminal's coordinates. *)
C11_CentroidNearAssignedPoint ==
  (Clicked /\ N > 0) =>
    LET trace == ClusterTrace
        pts == TerminalPoints
        ids == TerminalNodes
    IN \A j \in 1..(2 * N) :
         LET k == ids[j]
         IN /\ k < Len(trace[j]) => WithinTolerance(trace[j][k + 1], pts[j])
            /\ WithinTolerance(trace[j + 1][k + 1], pts[j])
            /\ k >= Len(trace[j]) =>
                 /\ trace[j + 1][k + 1].x = [n |-> pts[j].x, d |-> 1]
                 /\ trace[j + 1][k + 1].y = [n |-> pts[j].y, d |-> 1]

C11_Witness ==
  /\ Clicked /\ N > 0
  /\ LET trace == ClusterTrace
         pts == TerminalPoints
         ids == TerminalNodes
     IN \E j \in 1..(2 * N) :
          /\ ids[j] < Len(trace[j])
          /\ \E m \in MembersAt(ids, ids[j], j - 1) :
               /\ ~WithinTolerance(trace[j][ids[j] + 1], pts[m])
               /\ ~WithinTolerance(trace[j + 1][ids[j] + 1], pts[m])

----------------------------------------------------------------------------
(* The triangle *)

(* The terminal coordinates of the canvas list *)
Corners == {components[i + 1].pinA : i \in Indices} \cup
           {components[i + 1].pinB : i \in Indices}

FartherThanTolerance(p, q) ==
  (p.x - q.x) * (p.x - q.x) + (p.y - q.y) * (p.y - q.y) > 64

(* The components with a terminal at the point p *)
ComponentsAt(p) ==
  {i \in Indices : components[i + 1].pinA = p \/ components[i + 1].pinB = p}

(* Three resistors with values on the sides of a triangle whose corners lie
   farther apart than the tolerance, every corner shared by exactly two *)
IsTriangle ==
  /\ N = 3
  /\ \A i \in Indices :
       /\ TypeOf(i) = "resistor"
       /\ ~IsBlankField(components[i + 1].value)
       /\ components[i + 1].pinA # components[i + 1].pinB
  /\ Cardinality(Corners) = 3
  /\ \A p, q \in Corners : p # q => FartherThanTolerance(p, q)
  /\ \A p \in Corners : Cardinality(ComponentsAt(p)) = 2

(* C12: a triangle of three resistors with values passes the integrity
   validation and the parameter check, and clustering gives its terminals
   exactly the three node ids 0, 1, 2, each with member count 2. *)
C12_TriangleValidates ==
  (Clicked /\ IsTriangle) =>
    /\ Integrity.result = Ok
    /\ ParamsRan /\ ParamsResult = Ok
    /\ storage # <<>>
    /\ Len(Pass.clusters) = 3
    /\ {TerminalNodes[j] : j \in 1..(2 * N)} = {0, 1, 2}
    /\ \A k \in {0, 1, 2} :
         /\ MemberCount(k) = 2
         /\ Cardinality({j \in 1..(2 * N) : TerminalNodes[j] = k}) = 2

C12_Witness ==
  /\ Clicked /\ IsTriangle
  /\ Integrity.result.ok /\ Len(Pass.clusters) = 3
  /\ \E i \in Indices : NodeA(i) > NodeB(i)

----------------------------------------------------------------------------
(* Runs of the validation on the same list *)

Watched == watched[1].pass

(* C13: two runs of the click handler on the same canvas list give the same
   verdicts and the same node assignment for every terminal, whatever runs
   on other lists came before or in between. *)
C13_SameListSamePass ==
  (watched # <<>> /\ lastPass.list = Watched.list) =>
    /\ lastPass.integrity.result = Watched.integrity.result
    /\ lastPass.params = Watched.params
    /\ lastPass.integrity.st.componentNodes = Watched.integrity.st.componentNodes
    /\ lastPass.integrity.st.clusters = Watched.integrity.st.clusters

C13_Witness ==
  /\ watched # <<>> /\ watched[1].between
  /\ lastPass.list = Watched.list /\ Len(lastPass.list) >= 2
  /\ Len(Pass.clusters) >= 2

----------------------------------------------------------------------------
(* The click handler and the canvas list *)

(* The canvas list as it was when the last run of the handler began *)
ListBefore == lastPass.list

(* C14: after a run of the click handler (normalisation, integrity
   validation, parameter check) the canvas list holds the same components,
   each with the same id, type, terminal coordinates, label, parameter
   fields and flags as before the run, whether the run succeeded or failed. *)
C14_CanvasListUntouched ==
  Clicked =>
    /\ Len(components) = Len(ListBefore)
    /\ \A i \in 1..Len(components) :
         \A k \in {"id", "type", "pinA", "pinB", "label", "value", "current", "voltage",
                   "currentUnknown", "voltageUnknown"} :
           components[i][k] = ListBefore[i][k]

C14_Witness ==
  /\ Clicked /\ ParamsRan /\ ~ParamsResult.ok
  /\ \E i \in Indices : Normalized(i) # components[i + 1]
  /\ components = ListBefore

(* The run recorded in lastPass' passed both checks *)
BothSucceeded == lastPass'.integrity.result.ok /\ lastPass'.params = <<Ok>>

(* The error of the check that failed in the run recorded in lastPass' *)
FailedWith ==
  IF ~lastPass'.integrity.result.ok THEN lastPass'.integrity.result.error
  ELSE lastPass'.params[1].error

(* C15: a step writes the snapshot or opens the analysis page only when it
   is a click whose integrity validation and parameter check both succeeded;
   a click with a failed check shows that check's error, leaves the stored
   snapshot as it was and opens no page. *)
C15_SnapshotOnlyOnSuccess ==
  [][/\ (storage' # storage \/ pagesOpened' # pagesOpened) => BothSucceeded
     /\ (components' = components /\ eraseMode' = eraseMode /\ (timerSet => timerSet')
         /\ AnalyzeClick) =>
          IF BothSucceeded
          THEN /\ storage' # <<>>
               /\ Len(storage'[1].circuit.components) = Len(components)
               /\ pagesOpened' = pagesOpened + 1
          ELSE /\ popupVisible' /\ popup' = FailedWith /\ popup'.kind # "none"
               /\ storage' = storage
               /\ pagesOpened' = pagesOpened]_vars

C15_Witness ==
  /\ Clicked /\ storage # <<>> /\ pagesOpened = 1
  /\ ~Integrity.result.ok /\ popupVisible /\ popup = Integrity.result.error
  /\ Len(storage[1].circuit.components) # N

----------------------------------------------------------------------------
(* The stored snapshot *)

Succeeded == Clicked /\ Integrity.result.ok /\ ParamsRan /\ ParamsResult.ok

Snapshot == storage[1]
Stored(i) == Snapshot.circuit.components[i + 1]

ComponentKeys ==
  {"id", "type", "pinA", "pinB", "label", "value", "current", "voltage",
   "currentUnknown", "voltageUnknown"}

(* The stored component has the property k exactly when the canvas
   component has it, with the same value *)
SameProperty(i, k) ==
  /\ k \in DOMAIN Stored(i) <=> IsPresent(components[i + 1][k])
  /\ k \in DOMAIN Stored(i) => Stored(i)[k] = components[i + 1][k][1]

(* C16 as stated: on success the stored payload carries for every component
   the node-id pair derived by clustering, next to its original parameters. *)
C16_PayloadCarriesNodePairs ==
  Succeeded =>
    \A i \in Indices :
      /\ {"nodeA", "nodeB"} \subseteq DOMAIN Stored(i)
      /\ Stored(i).nodeA = NodeA(i) /\ Stored(i).nodeB = NodeB(i)
      /\ \A k \in ComponentKeys \ {"id", "type", "pinA", "pinB"} : SameProperty(i, k)

(* C16: on success the stored payload is the time of the click and the
   normalised component list, nothing else: every component with its id,
   type, terminal coordinates, label, current and voltage as on the canvas;
   a passive component or wire also with its value and flags as on the
   canvas; a source without value and with its two unknown flags re-derived
   from the emptiness of its own field.  No node id is stored. *)
C16_PayloadIsNormalisedList ==
  Succeeded =>
    /\ DOMAIN Snapshot = {"savedAt", "circuit"}
    /\ Snapshot.savedAt \in Times
    /\ DOMAIN Snapshot.circuit = {"components"}
    /\ Len(Snapshot.circuit.components) = N
    /\ \A i \in Indices :
         /\ DOMAIN Stored(i) \subseteq ComponentKeys
         /\ \A k \in {"id", "type", "pinA", "pinB"} : Stored(i)[k] = components[i + 1][k]
         /\ \A k \in {"label", "current", "voltage"} : SameProperty(i, k)
         /\ IF TypeOf(i) = "voltage_source" THEN
              /\ "value" \notin DOMAIN Stored(i)
              /\ Stored(i).voltageUnknown = IsBlankField(components[i + 1].voltage)
              /\ Stored(i).currentUnknown = ~IsBlankField(components[i + 1].voltage)
            ELSE IF TypeOf(i) = "current_source" THEN
              /\ "value" \notin DOMAIN Stored(i)
              /\ Stored(i).currentUnknown = IsBlankField(components[i + 1].current)
              /\ Stored(i).voltageUnknown = ~IsBlankField(components[i + 1].current)
            ELSE \A k \in {"value", "currentUnknown", "voltageUnknown"} : SameProperty(i, k)

C16_Witness ==
  /\ Succeeded /\ storage # <<>> /\ N >= 2
  /\ \E i \in Indices :
       /\ TypeOf(i) = "voltage_source"
       /\ components[i + 1].currentUnknown # Some(TRUE)
       /\ Stored(i).currentUnknown = TRUE
  /\ \E i \in Indices : TypeOf(i) = "resistor" /\ Stored(i).value = <<"5">>

----------------------------------------------------------------------------
(* Lists long enough for the error lists to overflow, with labelled and    *)
(* unlabelled components                                                   *)

MaxNamed == 5

Labels == {Undefined, Some(<<" ", "R", "7", " ">>), Some(<<" ", " ">>)}

Labelled(comp, label) == [comp EXCEPT !.label = label]

(* Resistors on one branch: without a value under every label, and one with
   a value *)
UnvaluedComponents ==
  {Labelled(Component("resistor", PA, PB, Some(<<>>), Some(<<>>), Some(<<>>),
                      Some(TRUE), Some(TRUE)), l) : l \in Labels}
  \cup {Component("resistor", PA, PB, Some(<<"5">>), Some(<<>>), Some(<<>>),
                  Some(TRUE), Some(TRUE))}

(* The far end of the j-th ray of a star around PA *)
Star(j) == Point(24 * j, 48)

(* The j-th component of a star list lies on the j-th ray, or on the branch
   PA-PB that all such components share *)
StarComponent(j, shared, label) ==
  Labelled(Component("resistor", PA, IF shared THEN PB ELSE Star(j), Some(<<"5">>),
                     Some(<<>>), Some(<<>>), Some(TRUE), Some(TRUE)), label)

StarLists ==
  {WithIds([j \in 1..Len(f) |-> StarComponent(j, f[j][1], f[j][2])]) :
     f \in UNION {[1..m -> BOOLEAN \X {Undefined, Some(<<" ", "R", "7", " ">>)}] :
                    m \in 1..MaxNamed}}

InitNames ==
  /\ components \in ListsOver(UnvaluedComponents, 0, MaxNamed) \cup StarLists
  /\ InitRest

SpecNames == InitNames /\ [][Next]_vars

(* The indices of a set in list order *)
RECURSIVE InOrder(_, _)
InOrder(S, i) ==
  IF i >= N THEN <<>>
  ELSE (IF i \in S THEN <<i>> ELSE <<>>) \o InOrder(S, i + 1)

(* The label without the spaces around it *)
Stripped(s) ==
  LET first == CHOOSE a \in 1..Len(s) : s[a] # " " /\ \A k \in 1..(a - 1) : s[k] = " "
      last == CHOOSE b \in 1..Len(s) : s[b] # " " /\ \A k \in (b + 1)..Len(s) : s[k] = " "
  IN [k \in 1..(last - first + 1) |-> s[first + k - 1]]

(* The name of component i in an error: its label without the surrounding
   spaces, or KIND_n for the n-th component of the list when it has no label *)
ExpectedName(i) ==
  IF ~IsBlankField(components[i + 1].label) THEN Stripped(components[i + 1].label[1])
  ELSE ToUpperCase(TypeOf(i)) \o <<"_">> \o
       <<(<<"1", "2", "3", "4", "5", "6", "7", "8", "9">>)[i + 1]>>

ExpectedEntry(i) == ExpectedName(i) \o <<" ", "(">> \o ReasonOf(i) \o <<")">>

(* The first four of a list *)
FirstFour(s) == [j \in 1..(IF Len(s) > 4 THEN 4 ELSE Len(s)) |-> s[j]]

Lacking == {i \in Indices : LacksParameter(i)}

(* C17: the dangling error names the dangling components and the
   missing-parameter error the components that lack their parameter, both in
   list order and up to four names, with the overflow mark exactly when more
   than four offend; a name is the label without the spaces around it or,
   for a component without label, KIND_n with n its 1-based position. *)
C17_ErrorsNameOffenders ==
  /\ (Clicked /\ N > 0 /\ DanglingIndices # {}) =>
       LET offenders == InOrder(DanglingIndices, 0)
       IN /\ popup.kind = "dangling"
          /\ popup.names = FirstFour([j \in 1..Len(offenders) |-> ExpectedName(offenders[j])])
          /\ popup.more <=> Len(offenders) > 4
  /\ (ParamsRan /\ Lacking # {}) =>
       LET offenders == InOrder(Lacking, 0)
       IN /\ popup.kind = "params"
          /\ popup.names = FirstFour([j \in 1..Len(offenders) |-> ExpectedEntry(offenders[j])])
          /\ popup.more <=> Len(offenders) > 4

C17_Witness ==
  /\ ParamsRan /\ popup.kind = "params" /\ popup.more
  /\ Cardinality(Lacking) = 5
  /\ popup.names[1] = <<"R", "7", " ", "(", "v", "a", "l", "o", "r", "e", ")">>
  /\ popup.names[2] = <<"R", "E", "S", "I", "S", "T", "O", "R", "_", "2", " ", "(",
                        "v", "a", "l", "o", "r", "e", ")">>
  /\ components[3].label = Some(<<" ", " ">>)

----------------------------------------------------------------------------
(* The choice of the cluster *)

(* The clusters of the array, by index, whose centroid is no farther than
   the tolerance from the point p *)
Qualifying(clusters, p) ==
  {k \in 0..(Len(clusters) - 1) : WithinTolerance(clusters[k + 1], p)}

(* The centroid of the cluster lies exactly at the tolerance from p *)
AtBoundary(cluster, p) ==
  LET ex == p.x * cluster.x.d - cluster.x.n
      ey == p.y * cluster.y.d - cluster.y.n
  IN (ex * ex) * (cluster.y.d * cluster.y.d) + (ey * ey) * (cluster.x.d * cluster.x.d)
       = 64 * (cluster.x.d * cluster.x.d) * (cluster.y.d * cluster.y.d)

(* C18: every terminal is assigned to the lowest-indexed cluster whose
   centroid at that moment lies at squared distance at most 8 * 8 from it,
   the boundary included, and the number of clusters stays; only when no
   cluster qualifies a new cluster with the next index is created at the
   terminal's coordinates with count 1. *)
C18_LowestQualifyingCluster ==
  (Clicked /\ N > 0) =>
    LET trace == ClusterTrace
        pts == TerminalPoints
        ids == TerminalNodes
    IN /\ trace[2 * N + 1] = Pass.clusters
       /\ \A j \in 1..(2 * N) :
            LET before == trace[j]
                near == Qualifying(trace[j], pts[j])
            IN IF near # {} THEN
                 /\ ids[j] \in near
                 /\ \A k \in near : ids[j] <= k
                 /\ Len(trace[j + 1]) = Len(before)
               ELSE
                 /\ ids[j] = Len(before)
                 /\ trace[j + 1] =
                      Append(before, [x |-> [n |-> pts[j].x, d |-> 1],
                                      y |-> [n |-> pts[j].y, d |-> 1], count |-> 1])

C18_Witness ==
  /\ Clicked /\ N > 0
  /\ LET trace == ClusterTrace
         pts == TerminalPoints
         ids == TerminalNodes
     IN /\ \E j \in 1..(2 * N) :
             /\ Cardinality(Qualifying(trace[j], pts[j])) >= 2
             /\ ids[j] = 0
             /\ \A k \in Qualifying(trace[j], pts[j]) : AtBoundary(trace[j][k + 1], pts[j])
        /\ \E j \in 2..(2 * N) : Qualifying(trace[j], pts[j]) = {}

----------------------------------------------------------------------------
(* The running centroid and the counts *)

RECURSIVE SumX(_, _)
SumX(pts, M) ==
  IF M = {} THEN 0
  ELSE LET m == CHOOSE e \in M : TRUE IN pts[m].x + SumX(pts, M \ {m})

RECURSIVE SumY(_, _)
SumY(pts, M) ==
  IF M = {} THEN 0
  ELSE LET m == CHOOSE e \in M : TRUE IN pts[m].y + SumY(pts, M \ {m})

(* The arrays of the validation after the first m components *)
PassAfter(m) == clusterAllFrom(EmptyPass, SubSeq(lastPass.components, 1, m), 0)

(* The terminal count of node k in the given arrays: terminalCounts.get(k) ?? 0 *)
TerminalCount(st, k) ==
  IF \E e \in 1..Len(st.terminalCounts) : st.terminalCounts[e][1] = k
  THEN st.terminalCounts[CHOOSE e \in 1..Len(st.terminalCounts) :
                           st.terminalCounts[e][1] = k][2]
  ELSE 0

(* C19: after every terminal assignment each cluster's centroid is the
   arithmetic mean of the terminal points assigned to it so far and its
   count is their number; after every component, and so at the dangling
   check, the terminal count of every node equals the count of its cluster. *)
C19_CentroidIsMeanOfMembers ==
  (Clicked /\ N > 0) =>
    LET trace == ClusterTrace
        pts == TerminalPoints
        ids == TerminalNodes
    IN /\ \A j \in 1..(2 * N) :
            \A k \in 0..(Len(trace[j + 1]) - 1) :
              LET c == trace[j + 1][k + 1]
                  M == MembersAt(ids, k, j)
              IN /\ c.count = Cardinality(M)
                 /\ c.x.n * Cardinality(M) = SumX(pts, M) * c.x.d
                 /\ c.y.n * Cardinality(M) = SumY(pts, M) * c.y.d
       /\ \A m \in 1..N :
            LET st == PassAfter(m)
            IN /\ m = N => st = Pass
               /\ st.clusters = trace[2 * m + 1]
               /\ \A k \in 0..(Len(st.clusters) - 1) :
                    /\ TerminalCount(st, k) = st.clusters[k + 1].count
                    /\ TerminalCount(st, k) = Cardinality(MembersAt(ids, k, 2 * m))

C19_Witness ==
  /\ Clicked /\ N >= 3
  /\ LET trace == ClusterTrace
     IN \E j \in 3..(2 * N - 1) :
          \E k \in 0..(Len(trace[j + 1]) - 1) :
            /\ trace[j + 1][k + 1].count >= 3
            /\ trace[j + 1][k + 1].x.d # 1
            /\ trace[j + 1][k + 1] # Pass.clusters[k + 1]
  /\ \E i \in Indices : NodeA(i) = NodeB(i)

----------------------------------------------------------------------------
(* The order of the components and the partition of the terminals *)

(* The partition of the terminals <<component id, pin>> of a list into
   nodes, given the node ids of its components *)
PartitionOf(list, nodes) ==
  LET ids == {nodes[i].a : i \in 1..Len(nodes)} \cup {nodes[i].b : i \in 1..Len(nodes)}
  IN {{<<list[i].id, "a">> : i \in {e \in 1..Len(list) : nodes[e].a = k}} \cup
      {<<list[i].id, "b">> : i \in {e \in 1..Len(list) : nodes[e].b = k}} : k \in ids}

(* The canvas list with its first two components in the other order *)
FirstTwoSwapped ==
  [i \in 1..N |-> IF i = 1 THEN components[2] ELSE IF i = 2 THEN components[1]
                  ELSE components[i]]

ExactlyAtTolerance(p, q) ==
  (p.x - q.x) * (p.x - q.x) + (p.y - q.y) * (p.y - q.y) = 64

(* Three components: the first two are points farther apart than the
   tolerance, and pin A of the third lies exactly at the tolerance from both *)
IsBoundaryTriple ==
  /\ N = 3
  /\ components[1].pinA = components[1].pinB
  /\ components[2].pinA = components[2].pinB
  /\ FartherThanTolerance(components[1].pinA, components[2].pinA)
  /\ ExactlyAtTolerance(components[3].pinA, components[1].pinA)
  /\ ExactlyAtTolerance(components[3].pinA, components[2].pinA)

(* C20: clustering depends on the order of the components at the tolerance
   boundary: for a list whose third component has a terminal exactly at the
   tolerance from the two points that the first two components are, swapping
   the first two components changes the partition of the terminals into
   nodes; that terminal goes with whichever of the two comes first. *)
C20_OrderChangesPartition ==
  (Clicked /\ IsBoundaryTriple) =>
    LET here == PartitionOf(components, Pass.componentNodes)
        there == PartitionOf(FirstTwoSwapped,
                             clusterAllFrom(EmptyPass, FirstTwoSwapped, 0).componentNodes)
    IN /\ here # there
       /\ \E g \in here : {<<components[1].id, "a">>, <<components[3].id, "a">>} \subseteq g
       /\ \E g \in there : {<<components[2].id, "a">>, <<components[3].id, "a">>} \subseteq g

C20_Witness ==
  /\ Clicked /\ IsBoundaryTriple
  /\ NodeA(2) = NodeA(0) /\ NodeA(1) # NodeA(0)
  /\ clusterAllFrom(EmptyPass, FirstTwoSwapped, 0).componentNodes[3].a = 0
  /\ clusterAllFrom(EmptyPass, FirstTwoSwapped, 0).componentNodes[2].a = 1

----------------------------------------------------------------------------
(* Terminals at identical coordinates *)

(* C21: any two terminals with identical coordinates are assigned the same
   node id, whatever other terminals the list contains and in whatever order
   they are processed. *)
C21_SamePointSameNode ==
  Clicked =>
    LET pts == TerminalPoints
        ids == TerminalNodes
    IN \A i, j \in 1..(2 * N) : pts[i] = pts[j] => ids[i] = ids[j]

----------------------------------------------------------------------------
(* The grid step and the tolerance *)

(* The terminals of the list the last run read, and their node ids, in
   processing order *)
RunPoints ==
  [j \in 1..(2 * Len(lastPass.list)) |->
     IF j % 2 = 1 THEN lastPass.list[(j + 1) \div 2].pinA
     ELSE lastPass.list[j \div 2].pinB]

OnGrid(p) == IsPlain(p) /\ snapToGrid(p.x, p.y) = p

(* C22: with the default grid step (8) and the tolerance (8), two terminals
   snapped to different grid points are never assigned to the same node. *)
C22_GridPointsKeptApart ==
  Clicked =>
    LET pts == RunPoints
        ids == TerminalNodes
    IN \A i, j \in 1..Len(pts) :
         (OnGrid(pts[i]) /\ OnGrid(pts[j]) /\ pts[i] # pts[j]) => ids[i] # ids[j]

----------------------------------------------------------------------------
(* The order of the checks *)

MaxOrder == 3

(* Resistors with and without a value on two branches that share no node *)
OrderComponents ==
  {Component("resistor", p[1], p[2], v, Some(<<>>), Some(<<>>), Some(TRUE), Some(TRUE)) :
     p \in {<<PA, PB>>, <<PC, PD>>}, v \in {Some(<<"5">>), Some(<<>>)}}

InitOrder ==
  /\ components \in ListsOver(OrderComponents, 0, MaxOrder)
  /\ InitRest

SpecOrder == InitOrder /\ [][Next]_vars

(* C23: the failure classes are reported in a fixed order.  A list with a
   dangling component reports the dangling error, also when it is
   disconnected; a list without one that is disconnected reports the
   disconnected error; whenever integrity fails the parameter check has not
   run and the popup shows the integrity error, also when a component lacks
   its parameter; the missing-parameter error is shown only after integrity
   has succeeded. *)
C23_FailuresInFixedOrder ==
  (Clicked /\ N > 0) =>
    /\ DanglingIndices # {} => popup.kind = "dangling"
    /\ (DanglingIndices = {} /\ ~AllReachable) => popup.kind = "disconnected"
    /\ (DanglingIndices # {} \/ ~AllReachable) =>
         /\ ~Integrity.result.ok
         /\ lastPass.params = <<>>
         /\ popup = Integrity.result.error
    /\ (DanglingIndices = {} /\ AllReachable /\ Lacking # {}) => popup.kind = "params"
    /\ popup.kind = "params" =>
         /\ DanglingIndices = {} /\ AllReachable
         /\ Lacking # {}

C23_Witness ==
  /\ Clicked /\ N = 3
  /\ DanglingIndices = {2} /\ ~AllReachable
  /\ Lacking # {}
  /\ popup.kind = "dangling" /\ Len(popup.names) = 1

----------------------------------------------------------------------------
(* C24 *)

ExclusiveFlags(comp) ==
  /\ comp.voltageUnknown # Undefined
  /\ comp.currentUnknown # Undefined
  /\ comp.voltageUnknown # comp.currentUnknown

(* The field whose emptiness decides the flags of a source *)
OwnField(comp) ==
  IF comp.type = "voltage_source" THEN comp.voltage ELSE comp.current

OwnUnknown(comp) ==
  IF comp.type = "voltage_source" THEN comp.voltageUnknown
  ELSE comp.currentUnknown

OtherUnknown(comp) ==
  IF comp.type = "voltage_source" THEN comp.currentUnknown
  ELSE comp.voltageUnknown

(* C24 as stated: a source whose voltageUnknown and currentUnknown are both
   present and mutually exclusive keeps its flags through
   normalizeComponentsForAnalysis. *)
C24_ExclusiveFlagsKept ==
  Clicked =>
    \A i \in Indices :
      (IsSource(TypeOf(i)) /\ ExclusiveFlags(components[i + 1])) =>
        /\ Normalized(i).voltageUnknown = components[i + 1].voltageUnknown
        /\ Normalized(i).currentUnknown = components[i + 1].currentUnknown

(* C24 amended: normalizeComponentsForAnalysis re-derives both flags of
   every source from the emptiness of its own field, whatever the incoming
   flags; mutually exclusive incoming flags survive exactly when they already
   agree with the field (own flag true with a blank field, or own flag false
   with a non-blank field). *)
C24_FlagsAlwaysRederived ==
  Clicked =>
    \A i \in Indices :
      IsSource(TypeOf(i)) =>
        LET comp == components[i + 1]
            blank == ~IsTruthyNonBlank(OwnField(comp))
        IN /\ OwnUnknown(Normalized(i)) = Some(blank)
           /\ OtherUnknown(Normalized(i)) = Some(~blank)
           /\ ExclusiveFlags(comp) =>
                ((/\ Normalized(i).voltageUnknown = comp.voltageUnknown
                  /\ Normalized(i).currentUnknown = comp.currentUnknown)
                   <=> OwnUnknown(comp) = Some(blank))

C24_Witness ==
  /\ Clicked
  /\ \E i \in Indices :
       /\ TypeOf(i) = "voltage_source"
       /\ components[i + 1].voltageUnknown = Some(TRUE)
       /\ components[i + 1].currentUnknown = Some(FALSE)
       /\ IsTruthyNonBlank(components[i + 1].voltage)
       /\ Normalized(i).voltageUnknown = Some(FALSE)
       /\ Normalized(i).currentUnknown = Some(TRUE)

----------------------------------------------------------------------------
(* C25 *)

NoFlags(comp) == comp.voltageUnknown = Undefined /\ comp.currentUnknown = Undefined
NoFields(comp) == OrEmpty(comp.voltage) = <<>> /\ OrEmpty(comp.current) = <<>>

(* Components that addComponent put on the canvas in this session carry a
   Date.now() identifier *)
CreatedHere(comp) == comp.id > 0

(* The component the inspector shows *)
Shown == Find(components, Get(inspector.componentId))

(* C25: for a source whose unknown flags are absent and whose fields are
   empty, the editor and the submission path resolve the flags in opposite
   ways.  A voltage source leaves creation (buildLabeledComponent) and is
   shown by the inspector (renderComponent) as current unknown / voltage
   known, and leaves normalizeComponentsForAnalysis as voltage unknown /
   current known; a current source the other way round. *)
C25_OrientationsDiffer ==
  /\ \A i \in 1..Len(components) :
       LET comp == components[i]
       IN (IsSource(comp.type) /\ CreatedHere(comp)) =>
            /\ comp.currentUnknown = Some(comp.type = "voltage_source")
            /\ comp.voltageUnknown = Some(comp.type = "current_source")
            /\ comp.voltage = Some(<<>>)
            /\ comp.current = Some(<<>>)
  /\ (inspector.componentId # Null /\ Shown # Null) =>
       LET comp == Get(Shown)
       IN (IsSource(comp.type) /\ NoFlags(comp) /\ NoFields(comp)) =>
            /\ inspector.currentUnknown = (comp.type = "voltage_source")
            /\ inspector.voltageUnknown = (comp.type = "current_source")
  /\ Clicked =>
       \A i \in 1..Len(lastPass.list) :
         LET comp == lastPass.list[i]
             norm == lastPass.components[i]
         IN (IsSource(comp.type) /\ NoFields(comp)) =>
              /\ norm.voltageUnknown = Some(comp.type = "voltage_source")
              /\ norm.currentUnknown = Some(comp.type = "current_source")

(* A restored voltage source without flags is shown by the inspector as
   current unknown, a voltage source created next to it is stored as current
   unknown, and the analysis has turned both into voltage unknown *)
C25_Witness ==
  /\ Clicked
  /\ Len(components) = 2
  /\ lastPass.list = components
  /\ components[1].type = "voltage_source" /\ NoFlags(components[1])
  /\ components[2].type = "voltage_source" /\ CreatedHere(components[2])
  /\ components[2].currentUnknown = Some(TRUE)
  /\ inspector.componentId = Some(components[1].id)
  /\ inspector.currentUnknown /\ ~inspector.voltageUnknown
  /\ \A i \in 1..2 : /\ lastPass.components[i].voltageUnknown = Some(TRUE)
                      /\ lastPass.components[i].currentUnknown = Some(FALSE)

----------------------------------------------------------------------------
(* C26 *)

(* The last patch is one of a checkbox of a source *)
CheckboxPatch ==
  /\ lastPatch # Null
  /\ {"currentUnknown", "voltageUnknown"} \subseteq DOMAIN Get(lastPatch).patch

(* C26: every patch that a change of the "current unknown" or "voltage
   unknown" checkbox applies to a selected source has exactly one of
   currentUnknown and voltageUnknown true, and carries the empty string in
   the field of the quantity marked unknown; the source on the canvas then
   has these flags and fields. *)
C26_CheckboxPatchExclusive ==
  CheckboxPatch =>
    LET patch == Get(lastPatch).patch
        comp == Get(Find(components, Get(lastPatch).id))
    IN /\ patch.currentUnknown # patch.voltageUnknown
       /\ patch.currentUnknown => patch.current = <<>>
       /\ patch.voltageUnknown => patch.voltage = <<>>
       /\ comp.currentUnknown = Some(patch.currentUnknown)
       /\ comp.voltageUnknown = Some(patch.voltageUnknown)
       /\ comp.current = Some(patch.current)
       /\ comp.voltage = Some(patch.voltage)

(* A checkbox of a voltage source with a stored current was changed: the
   patch marks the voltage unknown, empties it and keeps the stored current *)
C26_Witness ==
  /\ CheckboxPatch
  /\ Get(lastPatch).patch.voltageUnknown
  /\ ~Get(lastPatch).patch.currentUnknown
  /\ Get(lastPatch).patch.voltage = <<>>
  /\ Get(lastPatch).patch.current = <<"7">>
  /\ components[1].type = "voltage_source"
  /\ components[1].voltageUnknown = Some(TRUE)
  /\ components[1].voltage = Some(<<>>)

----------------------------------------------------------------------------
(* C27 *)

(* C27 as stated: after any sequence of component placements, clone
   placements and wire creations, several of them within one millisecond
   included, no two components of the list have the same id. *)
C27_IdsUnique ==
  \A i, j \in 1..Len(components) :
    components[i].id = components[j].id => i = j

----------------------------------------------------------------------------
(* C28 *)

(* The last event was a key press that met the inspector's keyboard lock *)
LockedKeyPress ==
  /\ journal # <<>>
  /\ journal[1].op = "keydown"
  /\ journal[1].locked

(* C28: a key press while the inspector's keyboard lock is set changes
   nothing of the editor: the component list, the selection, the undo and
   redo stacks, the active tool and its modes, the draft wire and the preview
   component are those of before the key press. *)
C28_LockedKeysChangeNothing ==
  LockedKeyPress =>
    LET before == journal[1].before
    IN /\ components = before.components
       /\ selectedIds = before.selectedIds
       /\ undoStack = before.undoStack
       /\ redoStack = before.redoStack
       /\ currentTool = before.currentTool
       /\ wireMode = before.wireMode
       /\ cloneMode = before.cloneMode
       /\ eraseMode = before.eraseMode
       /\ draftWire = before.draftWire
       /\ previewComponent = before.previewComponent

(* Delete was pressed under the lock while a component was selected and
   there was something to undo: the component is still there and selected *)
C28_Witness ==
  /\ LockedKeyPress
  /\ journal[1].e.key = "Delete"
  /\ keyboardLock
  /\ selectedIds # <<>>
  /\ undoStack # <<>>
  /\ Find(components, selectedIds[1]) # Null

----------------------------------------------------------------------------
(* C29 *)

(* C29: undo with a non-empty undo stack followed at once by redo brings
   back exactly the component list of before the undo; undo with an empty
   undo stack and redo with an empty redo stack leave the list as it is. *)
C29_UndoRedoRoundTrip ==
  /\ (/\ Len(journal) = 2
      /\ journal[1].op = "undo" /\ ~journal[1].empty
      /\ journal[2].op = "redo")
       => components = journal[1].before
  /\ (journal # <<>> /\ journal[Len(journal)].op \in {"undo", "redo"}
                     /\ journal[Len(journal)].empty)
       => components = journal[Len(journal)].before

(* A wire was drawn next to the stored resistor, undone and redone: the
   list of two components is back and the wire can be undone again *)
C29_Witness ==
  /\ Len(journal) = 2
  /\ journal[1].op = "undo" /\ ~journal[1].empty
  /\ journal[2].op = "redo" /\ ~journal[2].empty
  /\ Len(journal[1].before) = 2
  /\ Len(journal[2].before) = 1
  /\ components = journal[1].before
  /\ undoStack # <<>>

----------------------------------------------------------------------------
(* C30 *)

(* C30 as stated: after any sequence of tool switches, canvas clicks and
   Escape presses, there is a draft wire only while wire mode is active:
   draftWire is null whenever wireMode is false. *)
C30_DraftOnlyInWireMode ==
  ~wireMode => draftWire = Null

====
